---- MODULE Spec2Model ----
(***************************************************************************)
(* Model of the Feen proxy data plane: the catch-all proxy handler         *)
(* (handleProxy), the fixed-window rate limiter (checkRateLimit), the      *)
(* router (getFastestProvider), token rotation (rotateToken) and request   *)
(* signing (verifySignature).                                              *)
(*                                                                         *)
(* A request is a slot of req that moves through handleProxy one await     *)
(* point at a time.  Spec handles requests one after the other with every  *)
(* Authorization header, client address and token policy; SpecFallback     *)
(* runs the router and the candidate loop on every key set and upstream    *)
(* behaviour; SpecGuard varies scopes and signature headers; SpecRate runs *)
(* concurrent requests against the rate limiter; SpecRot interleaves       *)
(* rotateToken with requests; SpecSig runs verifySignedRequest on several  *)
(* server processes.                                                       *)
(***************************************************************************)
EXTENDS Integers, Sequences, FiniteSets, Bags, TLC

(***************************************************************************)
(* Bounds of the model.                                                    *)
(***************************************************************************)
MaxRequests == 2      \* requests handled one after the other in Spec
MaxFallbackRequests == 1 \* requests handled in SpecFallback
MaxGuardRequests == 2 \* requests handled in SpecGuard
NumClients == 2       \* concurrent requests in SpecRate
MaxWindows == 2       \* rate-limit windows the clock of SpecRate runs through
MaxRotations == 2     \* rotateToken calls in SpecRot
RotRequests == 2      \* requests interleaved with the rotations in SpecRot
NumServers == 2       \* server processes in SpecSig (production runs 3)
MaxSigTicks == 5      \* clock steps of SpecSig
MaxEvents == 3        \* recordSuspiciousActivity calls in SpecSusp
MaxRouteRequests == 1 \* proxy requests in SpecRoute
MaxUsageRequests == 1 \* proxy requests in SpecUsage
MaxWebhooks == 2      \* registerWebhook calls in SpecHooks
MaxQueued == 2        \* queueWebhook calls in SpecHooks
MaxSweeps == 2        \* runs of the expiry sweep in SpecSweep
MaxApiCalls == 2      \* dashboard API calls in SpecApi
MaxEnables == 2       \* successful calls of the 2FA enable endpoint
MaxTampers == 1       \* bytes of a stored blob that are overwritten in SpecCrypto
MaxSuspTicks == 2     \* clock steps of SpecSusp

(***************************************************************************)
(* Program constants.                                                      *)
(***************************************************************************)
RATE_WINDOW_SECONDS == 60
SIGNATURE_VALIDITY_SECONDS == 300
VIOLATION_WINDOW == 3600
TOTP_STEP == 30
PROXY_TIMEOUT_SECONDS == 30
IV_LENGTH == 16
TAG_LENGTH == 16
TOTP_DIGITS == 6
TOTP_WINDOW == 1
TickSeconds == RATE_WINDOW_SECONDS                 \* clock step of SpecRate
SigTickSeconds == SIGNATURE_VALIDITY_SECONDS \div 2 \* clock step of SpecSig
SuspTickSeconds == (VIOLATION_WINDOW \div 3) * 2     \* clock step of SpecSusp

None == "none"
NoDate == -1
NoStatus == 0

Max(a, b) == IF a >= b THEN a ELSE b
Min(a, b) == IF a <= b THEN a ELSE b
Abs(a) == IF a >= 0 THEN a ELSE 0 - a

RECURSIVE SeqFilterKeys(_, _)
\* the subsequence of s whose elements are in S (Array.prototype.filter)
SeqFilterKeys(s, S) ==
  IF s = <<>> THEN <<>>
  ELSE IF Head(s) \in S THEN <<Head(s)>> \o SeqFilterKeys(Tail(s), S)
       ELSE SeqFilterKeys(Tail(s), S)

SeqRange(s) == {s[i] : i \in 1..Len(s)}

RECURSIVE SumOver(_, _)
SumOver(f, S) ==
  IF S = {} THEN 0
  ELSE LET x == CHOOSE x \in S : TRUE IN f[x] + SumOver(f, S \ {x})

(***************************************************************************)
(* Persistent store: users, teams, API keys, the shared token.             *)
(***************************************************************************)
Users == {"u1", "u2"}
NoTeam == "null"
ApiKeyIds == <<"k1", "k2", "k3">>      \* in insertion order
SharedKeyIds == {"sk1"}

Providers == {"OPENAI", "TOGETHER", "GROQ", "AZURE_OPENAI"}

\* providers with a base URL
PROVIDER_ENDPOINTS == {"OPENAI", "ANTHROPIC", "GOOGLE", "COHERE", "MISTRAL", "GROQ",
                       "TOGETHER", "REPLICATE", "HUGGINGFACE", "BYTEZ"}

NoModel == "no-model"
Models == {NoModel, "gpt-4", "llama-3-8b-instruct", "my-finetune"}

MODEL_PROVIDER_MAP(model) ==
  CASE model = "gpt-4" -> <<"OPENAI", "AZURE_OPENAI">>
    [] model = "llama-3-8b-instruct" -> <<"TOGETHER", "GROQ", "MISTRAL">>
    [] OTHER -> <<>>

(***************************************************************************)
(* Crypto: tokens are <<prefix, random part>>; the hash wraps its input,   *)
(* so it is injective and never equal to its input.                        *)
(***************************************************************************)
hash(data) == <<"sha256", data>>

\* a generator that repeats itself
generateRepeatedToken(n) == <<"feen", 1>>

generateAccessToken(n) == <<"feen", n>>

InitialToken == generateAccessToken(1)

VARIABLES
  now,          \* wall clock, seconds
  sharedKeys,   \* db.sharedKey: id -> row
  apiKeys,      \* db.apiKey: id -> row
  usageLogs,    \* db.usageLog: bag of rows
  pendingUsage, \* shared key id -> bag of the lastUsedAt of its issued, not yet
                \* committed usage updates
  redisUp,      \* the fast store is reachable
  ratelimit,    \* fast store: <<shared key id, window index>> -> counter, TTL
  latency,      \* fast store: provider -> cached latency (0 = missing)
  focus,        \* which inputs the clients and the upstreams of this run draw from
  upstreamCalls,\* number of upstream requests issued (the mock's counter)
  req,          \* slot -> request in flight
  arrivals,     \* number of requests that have arrived
  minted,       \* number of access tokens minted so far
  retired,      \* access tokens replaced by a rotation
  rot,          \* rotateToken call -> its position and locals
  auditLog,     \* db.auditLog: bag of rows
  notifications,\* fast store: the list notifications:queue
  suspicious,   \* fast store: <<token id, event type>> -> the list
                \* suspicious:<token>:<type> (event timestamps, newest first) and its TTL
  sus,          \* recordSuspiciousActivity call -> its position and locals
  nonceCache,   \* server process -> NONCE_CACHE, a set of <<nonce key, timestamp>>
  accepted,     \* bag of the signed requests verifySignature has accepted
  sigResult,    \* the last verifySignedRequest call: server, headers, result
  webhooksQueue,  \* fast store: the list webhooks:queue, newest first
  webhookConfigs, \* fast store: webhooks:config:<user>, user -> list of configs
  deliveries,     \* bag of the webhooks sendWebhook has posted
  sweepLog,       \* the worker's log: time and count of every expiry sweep
  api,            \* dashboard API call -> its position and locals
  twoFactor,      \* fast store: user -> 2fa:secret:<user> and 2fa:backup:<user>
  revealed,       \* bag of the API key plaintexts returned to clients
  vault           \* a credential: its plaintext, its encrypted blob, the last decrypt

vars == <<now, sharedKeys, apiKeys, usageLogs, pendingUsage, redisUp, ratelimit, latency,
          focus, upstreamCalls, req, arrivals, minted, retired, rot, auditLog,
          notifications, suspicious, sus,
          nonceCache, accepted, sigResult, webhooksQueue, webhookConfigs, deliveries,
          sweepLog, api, twoFactor, revealed, vault>>

dbVars == <<sharedKeys, apiKeys, usageLogs, pendingUsage>>
rotVars == <<minted, retired, rot, auditLog, notifications>>
sigVars == <<nonceCache, accepted, sigResult>>
susVars == <<suspicious, sus>>
hookVars == <<webhooksQueue, webhookConfigs, deliveries>>
workerVars == <<sweepLog>>
apiVars == <<api, twoFactor, revealed>>
cryptoVars == <<vault>>


(***************************************************************************)
(* Request inputs.                                                         *)
(***************************************************************************)
\* Authorization header: <<scheme, access token>>; scheme "" is no header
NoHeader == <<"", <<"", 0>>>>

AuthHeaders(n) ==
  {NoHeader, <<"Basic", InitialToken>>, <<"Bearer", <<"sk", 1>>>>, <<"Bearer", <<"feen", 0>>>>}
    \cup {<<"Bearer", generateAccessToken(k)>> : k \in 1..n}

\* x-forwarded-for, first entry; "" is no header
ForwardedFor == {"", "10.0.0.7", "10.0.1.5"}

Endpoints == {"v1/chat/completions", "v1/embeddings", "v2/rerank"}

GoodSecret == "secret1"
WrongSecret == "guess"

\* a header that is absent, not a number, or a number
NoTimestamp == <<"absent", 0>>
NumHeader(n) == <<"num", n>>

\* HMAC-SHA256 over the joined signature base: an ideal MAC, one value per
\* (base, secret)
generateSignature(payload, secret) ==
  <<"hmac", secret, payload.timestamp, payload.nonce, payload.method, payload.path,
    payload.body, payload.tokenId>>

HexLength == 64      \* length of a hex SHA-256 digest

\* signRequest: the three headers of a request signed at time t with `nonce`
signRequest(t, nonce, method, path, body, tokenId, secret) ==
  [timestamp |-> NumHeader(t),
   nonce |-> nonce,
   signature |-> [len |-> HexLength,
                  mac |-> generateSignature([timestamp |-> t, nonce |-> nonce,
                                             method |-> method, path |-> path,
                                             body |-> body, tokenId |-> tokenId], secret)]]

NoSignature == [len |-> 0, mac |-> <<>>]
NoSigHeaders == [timestamp |-> NoTimestamp, nonce |-> "", signature |-> NoSignature]

\* extractSignatureHeaders: null unless the three headers are present
extractSignatureHeaders(h) ==
  h.timestamp # NoTimestamp /\ h.signature.len > 0 /\ h.nonce # ""

\* NONCE_CACHE.has(nonceKey)
NonceHas(cache, nonceKey) == \E e \in cache : e[1] = nonceKey

\* NONCE_CACHE.set(nonceKey, timestamp)
NonceSet(cache, nonceKey, timestamp) ==
  {e \in cache : e[1] # nonceKey} \cup {<<nonceKey, timestamp>>}

\* cleanOldNonces at time t
cleanOldNonces(cache, t) ==
  LET cutoff == t - SIGNATURE_VALIDITY_SECONDS * 2
  IN {e \in cache : ~(e[2] < cutoff)}

SigResult(valid, error, cache) == [valid |-> valid, error |-> error, cache |-> cache]

\* verifySignature at time t in a process whose NONCE_CACHE is `cache`: the
\* result and the cache it leaves.  "THROWS" is the RangeError of
\* crypto.timingSafeEqual on buffers of different length.
verifySignature(headers, method, path, body, tokenId, secret, t, cache) ==
  IF headers.timestamp[1] # "num" THEN SigResult(FALSE, "INVALID_TIMESTAMP", cache)
  ELSE LET timestamp == headers.timestamp[2]
           nonceKey == <<tokenId, headers.nonce>>
           stored == cleanOldNonces(NonceSet(cache, nonceKey, timestamp), t)
           expectedSignature ==
             generateSignature([timestamp |-> timestamp, nonce |-> headers.nonce,
                                method |-> method, path |-> path, body |-> body,
                                tokenId |-> tokenId], secret)
       IN IF Abs(t - timestamp) > SIGNATURE_VALIDITY_SECONDS
            THEN SigResult(FALSE, "EXPIRED", cache)
          ELSE IF NonceHas(cache, nonceKey) THEN SigResult(FALSE, "REPLAY", cache)
          ELSE IF headers.signature.len # HexLength THEN SigResult(FALSE, "THROWS", stored)
          ELSE IF headers.signature.mac # expectedSignature
                 THEN SigResult(FALSE, "INVALID_SIGNATURE", stored)
          ELSE SigResult(TRUE, None, stored)

\* verifySignedRequest
verifySignedRequest(headers, method, path, body, tokenId, secret, t, cache) ==
  IF ~extractSignatureHeaders(headers) THEN SigResult(FALSE, "MISSING_HEADERS", cache)
  ELSE verifySignature(headers, method, path, body, tokenId, secret, t, cache)

NoSigResult == [server |-> 0, headers |-> NoSigHeaders, error |-> None]

(***************************************************************************)
(* Scopes.                                                                 *)
(***************************************************************************)
ScopeAll == "*"

\* EndpointScopes, in table order; patterns of the endpoints of the model
EndpointScopes ==
  << <<"v1/chat/completions", {"chat:write", ScopeAll}>>,
     <<"v1/completions", {"completions:write", ScopeAll}>>,
     <<"v1/embeddings", {"embeddings:write", ScopeAll}>> >>

\* normalizedEndpoint.startsWith(pattern) || normalizedEndpoint.includes(pattern),
\* on the endpoints of the model
EndpointMatches(endpoint, pattern) == endpoint = pattern

RequiredScopes(endpoint) ==
  LET hits == {i \in 1..Len(EndpointScopes) : EndpointMatches(endpoint, EndpointScopes[i][1])}
  IN IF hits = {} THEN {}
     ELSE EndpointScopes[CHOOSE i \in hits : \A j \in hits : i <= j][2]

hasRequiredScope(tokenScopes, endpoint) ==
  LET required == RequiredScopes(endpoint)
  IN IF required = {} THEN TRUE
     ELSE IF ScopeAll \in tokenScopes THEN TRUE
     ELSE required \cap tokenScopes # {}

(***************************************************************************)
(* Policy checks of handleProxy, in the order of the code.                 *)
(***************************************************************************)
\* db.sharedKey.findFirst({ where: { tokenHash, isActive: true } })
FindSharedKey(sks, tokenHash) ==
  LET hits == {id \in DOMAIN sks : sks[id].tokenHash = tokenHash /\ sks[id].isActive}
  IN IF hits = {} THEN None ELSE CHOOSE id \in hits : TRUE

ClientIP(xff) == IF xff = "" THEN "unknown" ELSE xff

Verdict(status, reason, sk) == [status |-> status, reason |-> reason, sk |-> sk]

\* a cap that still admits the request that finds usageCount equal to maxUsage
UsageCapReachedLate(row) == row.maxUsage # 0 /\ row.usageCount > row.maxUsage

\* sharedKey.maxUsage && sharedKey.usageCount >= sharedKey.maxUsage
UsageCapReached(row) == row.maxUsage # 0 /\ row.usageCount >= row.maxUsage

\* policy checks that let an expired token through
PolicyVerdictNoExpiry(auth, xff, sks, t) ==
  IF auth[1] # "Bearer" THEN Verdict(401, "NO_BEARER", None)
  ELSE IF auth[2][1] # "feen" THEN Verdict(401, "BAD_FORMAT", None)
  ELSE LET id == FindSharedKey(sks, hash(auth[2]))
       IN IF id = None THEN Verdict(401, "NOT_FOUND", None)
          ELSE IF UsageCapReached(sks[id]) THEN Verdict(429, "USAGE_LIMIT", id)
          ELSE IF sks[id].allowedIPs # {} /\ ClientIP(xff) \notin sks[id].allowedIPs
                 THEN Verdict(403, "IP_DENIED", id)
          ELSE Verdict(NoStatus, None, id)

PolicyVerdict(auth, xff, sks, t) ==
  IF auth[1] # "Bearer" THEN Verdict(401, "NO_BEARER", None)
  ELSE IF auth[2][1] # "feen" THEN Verdict(401, "BAD_FORMAT", None)
  ELSE LET id == FindSharedKey(sks, hash(auth[2]))
       IN IF id = None THEN Verdict(401, "NOT_FOUND", None)
          ELSE IF sks[id].expiresAt # NoDate /\ sks[id].expiresAt < t
                 THEN Verdict(401, "EXPIRED", id)
          ELSE IF UsageCapReached(sks[id]) THEN Verdict(429, "USAGE_LIMIT", id)
          ELSE IF sks[id].allowedIPs # {} /\ ClientIP(xff) \notin sks[id].allowedIPs
                 THEN Verdict(403, "IP_DENIED", id)
          ELSE Verdict(NoStatus, None, id)

(***************************************************************************)
(* checkRateLimit.                                                         *)
(***************************************************************************)
WindowIndex(t, windowSeconds) == t \div windowSeconds

\* a limiter that refuses the request that reaches the limit
RateAllowedStrict(current, limit) == current < limit

RateAllowed(current, limit) == current <= limit

\* a result that reports the remaining budget but never refuses
RateResultNeverRefuses(current, limit, t, windowSeconds) ==
  [allowed |-> TRUE,
   remaining |-> Max(0, limit - current),
   resetAt |-> (WindowIndex(t, windowSeconds) + 1) * windowSeconds,
   failOpen |-> FALSE]

RateResult(current, limit, t, windowSeconds) ==
  [allowed |-> RateAllowed(current, limit),
   remaining |-> Max(0, limit - current),
   resetAt |-> (WindowIndex(t, windowSeconds) + 1) * windowSeconds,
   failOpen |-> FALSE]

\* a catch branch that refuses the request
RateFailClosed(limit, t, windowSeconds) ==
  [allowed |-> FALSE, remaining |-> 0, resetAt |-> t + windowSeconds, failOpen |-> TRUE]

\* the catch branch of checkRateLimit: fail open
RateFailOpen(limit, t, windowSeconds) ==
  [allowed |-> TRUE, remaining |-> limit, resetAt |-> t + windowSeconds, failOpen |-> TRUE]

NoRate == [allowed |-> FALSE, remaining |-> 0, resetAt |-> 0, failOpen |-> FALSE]

\* redis.incr: the value after the increment
Incr(counter) == counter + 1

(***************************************************************************)
(* Router.                                                                 *)
(***************************************************************************)
\* db.apiKey.findMany({ where: { OR: [{userId}, {teamId}], isActive: true } });
\* a null teamId in the filter matches the rows whose teamId is null
KeyAvailable(k, ownerId, teamId) ==
  (k.userId = ownerId \/ k.teamId = teamId) /\ k.isActive

AvailableApiKeys(keys, ownerId, teamId) ==
  SeqFilterKeys(ApiKeyIds, {id \in SeqRange(ApiKeyIds) : KeyAvailable(keys[id], ownerId, teamId)})

RECURSIVE FirstMinLatency(_, _, _)
\* scores.sort((a, b) => a.latency - b.latency)[0]: the first candidate of
\* minimal latency; a missing cache entry counts as Infinity
FirstMinLatency(cands, lat, best) ==
  IF cands = <<>> THEN best
  ELSE LET p == Head(cands)
           better == lat[p] # 0 /\ (lat[best] = 0 \/ lat[p] < lat[best])
       IN FirstMinLatency(Tail(cands), lat, IF better THEN p ELSE best)

\* a router that ignores the latency cache
getFirstPreferredProvider(model, availableProviders, lat) ==
  LET candidates == SeqFilterKeys(availableProviders, SeqRange(MODEL_PROVIDER_MAP(model)))
  IN IF candidates = <<>>
       THEN (IF availableProviders # <<>> THEN availableProviders[1] ELSE None)
       ELSE candidates[1]

\* getFastestProvider(model, availableProviders), given the latency cache
getFastestProvider(model, availableProviders, lat) ==
  LET preferred == SeqRange(MODEL_PROVIDER_MAP(model))
      candidates == SeqFilterKeys(availableProviders, preferred)
  IN IF candidates = <<>>
       THEN (IF availableProviders # <<>> THEN availableProviders[1] ELSE None)
     ELSE IF Len(candidates) = 1 THEN candidates[1]
     ELSE FirstMinLatency(Tail(candidates), lat, Head(candidates))

\* getFastestProvider reads the latency cache only to rank two or more candidates
ReadsLatency(model, availableProviders) ==
  model # NoModel
  /\ Len(SeqFilterKeys(availableProviders, SeqRange(MODEL_PROVIDER_MAP(model)))) > 1

BestProvider(model, availableProviders, lat, refProvider) ==
  IF model # NoModel THEN getFastestProvider(model, availableProviders, lat) ELSE refProvider

\* [...availableApiKeys].sort(...): the keys of the best provider, then the key
\* the token references, then the others, each group in its former order
SortedApiKeys(avail, keys, bestProvider, refKeyId) ==
  LET ids == SeqRange(avail)
      first == {id \in ids : keys[id].provider = bestProvider}
      second == {id \in ids \ first : id = refKeyId}
  IN SeqFilterKeys(avail, first) \o SeqFilterKeys(avail, second)
       \o SeqFilterKeys(avail, ids \ (first \cup second))


(***************************************************************************)
(* handleProxy, one step per await point.                                  *)
(***************************************************************************)
\* measured Date.now() - startTime, ms
LatencySamples(f) == IF f = "fallback" THEN {40, 300} ELSE {40}

UpstreamOutcomes == {"2xx", "4xx", "5xx", "throw"}

\* the outcomes the upstream providers show in a run
UpstreamModes(f) ==
  CASE f \in {"fallback", "policy"} -> UpstreamOutcomes
    [] f = "usage" -> {"2xx", "4xx"}
    [] f = "timeout" -> {"2xx", "5xx", "hang"}
    [] OTHER -> {"2xx"}

(***************************************************************************)
(* JavaScript values of the usage block of an upstream response body.      *)
(***************************************************************************)
Undefined == <<"undefined", 0>>
Null == <<"null", 0>>
Num(n) == <<"number", n>>

\* a value in a boolean position
Truthy(v) == v[1] = "number" /\ v[2] # 0

\* a || b
JsOr(a, b) == IF Truthy(a) THEN a ELSE b

\* a && b
JsAnd(a, b) == IF Truthy(a) THEN b ELSE a

\* what a column holds after db.usageLog.create is given v
Stored(v) == IF v = Undefined THEN Null ELSE v

NoUsage ==
  [prompt_tokens |-> Undefined, input_tokens |-> Undefined,
   completion_tokens |-> Undefined, output_tokens |-> Undefined,
   total_tokens |-> Undefined]

\* a body that is not JSON, and a JSON body without a usage block
TextBody == [kind |-> "text", usage |-> NoUsage]
JsonBody == [kind |-> "json", usage |-> NoUsage]

\* the token counts an upstream reports
TokenCounts == {Undefined, Num(0), Num(10)}
TotalCounts == {Undefined, Num(0), Num(30)}

UsageBlocks ==
  [prompt_tokens : TokenCounts, input_tokens : TokenCounts,
   completion_tokens : TokenCounts, output_tokens : TokenCounts,
   total_tokens : TotalCounts]

\* the response bodies the upstream providers send in a run
ResponseBodies(f) ==
  IF f = "usage"
    THEN {TextBody, JsonBody} \cup {[kind |-> "json_usage", usage |-> u] : u \in UsageBlocks}
    ELSE {TextBody}

\* requestTokens, responseTokens and totalTokens as handleProxy extracts them
extractTokens(status, body) ==
  IF ~(status >= 200 /\ status <= 299) \/ body.kind # "json_usage"
    THEN [requestTokens |-> Null, responseTokens |-> Null, totalTokens |-> Null]
    ELSE LET requestTokens == JsOr(body.usage.prompt_tokens, body.usage.input_tokens)
             responseTokens == JsOr(body.usage.completion_tokens, body.usage.output_tokens)
             totalTokens ==
               JsOr(body.usage.total_tokens,
                    IF Truthy(JsAnd(requestTokens, responseTokens))
                      THEN Num(requestTokens[2] + responseTokens[2])
                      ELSE Null)
         IN [requestTokens |-> requestTokens, responseTokens |-> responseTokens,
             totalTokens |-> totalTokens]

IdleReq ==
  [pc |-> "idle", body |-> TextBody, fetchAt |-> NoDate, xFeenProvider |-> None, gen |-> 0, auth |-> NoHeader, xff |-> "", endpoint |-> "",
   sig |-> NoSigHeaders, model |-> NoModel, sk |-> None, rlNow |-> 0, current |-> 0,
   rl |-> NoRate, cands |-> <<>>, i |-> 0, attempts |-> <<>>, resp |-> NoStatus,
   respKey |-> None, selected |-> None, status |-> NoStatus, reason |-> None]

RequestInputs(auths, xffs, endpoints, sigs, models) ==
  [auth : auths, xff : xffs, endpoint : endpoints, sig : sigs, model : models]

\* the response leaves: NextResponse with `status`
Respond(r, status, reason) ==
  req' = [req EXCEPT ![r].pc = "done", ![r].status = status, ![r].reason = reason]

\* a request arrives with input `in`
Arrive(r, in) ==
  /\ req[r].pc = "idle"
  /\ arrivals' = arrivals + 1
  /\ req' = [req EXCEPT ![r] = [IdleReq EXCEPT !.pc = "lookup", !.gen = req[r].gen + 1,
                                  !.auth = in.auth, !.xff = in.xff,
                                  !.endpoint = in.endpoint, !.sig = in.sig,
                                  !.model = in.model]]
  /\ UNCHANGED <<now, dbVars, redisUp, ratelimit, latency, focus, upstreamCalls,
                 rotVars, sigVars, susVars,
                 hookVars, workerVars, apiVars, cryptoVars>>

\* a lookup that counts the request in the token's rate-limit window before the
\* policy checks
LookupCounted(r) ==
  /\ req[r].pc = "lookup"
  /\ LET v == PolicyVerdict(req[r].auth, req[r].xff, sharedKeys, now)
         key == <<v.sk, WindowIndex(now, RATE_WINDOW_SECONDS)>>
     IN /\ IF v.status # NoStatus
             THEN req' = [req EXCEPT ![r].pc = "done", ![r].status = v.status,
                                     ![r].reason = v.reason, ![r].sk = v.sk]
             ELSE req' = [req EXCEPT ![r].pc = "rate", ![r].sk = v.sk]
        /\ IF v.sk # None
             THEN ratelimit' = [ratelimit EXCEPT ![key].count = Incr(@)]
             ELSE UNCHANGED ratelimit
  /\ UNCHANGED <<now, dbVars, redisUp, latency, focus, upstreamCalls,
                 arrivals, rotVars, sigVars, susVars,
                 hookVars, workerVars, apiVars, cryptoVars>>

\* header checks, findFirst, expiry, usage cap, IP allow-list
Lookup(r) ==
  /\ req[r].pc = "lookup"
  /\ LET v == PolicyVerdict(req[r].auth, req[r].xff, sharedKeys, now)
     IN IF v.status # NoStatus
          THEN req' = [req EXCEPT ![r].pc = "done", ![r].status = v.status,
                                  ![r].reason = v.reason, ![r].sk = v.sk]
          ELSE req' = [req EXCEPT ![r].pc = "rate", ![r].sk = v.sk]
  /\ UNCHANGED <<now, dbVars, redisUp, ratelimit, latency, focus, upstreamCalls,
                 arrivals, rotVars, sigVars, susVars,
                 hookVars, workerVars, apiVars, cryptoVars>>

\* what handleProxy does with the result of checkRateLimit
\* (t and current are the clock and the counter value checkRateLimit worked with)
AfterRateLimit(r, t, current, res) ==
  IF res.allowed
    THEN req' = [req EXCEPT ![r].pc = "route", ![r].rl = res, ![r].rlNow = t,
                            ![r].current = current]
    ELSE req' = [req EXCEPT ![r].pc = "done", ![r].rl = res, ![r].rlNow = t,
                            ![r].current = current, ![r].status = 429,
                            ![r].reason = "RATE_LIMITED"]

\* checkRateLimit up to redis.incr
RateIncr(r) ==
  /\ req[r].pc = "rate"
  /\ LET id == req[r].sk
         limit == sharedKeys[id].rateLimit
         key == <<id, WindowIndex(now, RATE_WINDOW_SECONDS)>>
         current == Incr(ratelimit[key].count)
     IN IF ~redisUp
          THEN /\ AfterRateLimit(r, now, 0, RateFailOpen(limit, now, RATE_WINDOW_SECONDS))
               /\ UNCHANGED ratelimit
          ELSE /\ ratelimit' = [ratelimit EXCEPT ![key].count = current]
               /\ IF current = 1
                    THEN req' = [req EXCEPT ![r].pc = "expire", ![r].rlNow = now,
                                            ![r].current = current]
                    ELSE AfterRateLimit(r, now, current,
                                        RateResult(current, limit, now, RATE_WINDOW_SECONDS))
  /\ UNCHANGED <<now, dbVars, redisUp, latency, focus, upstreamCalls, arrivals,
                 rotVars, sigVars, susVars,
                 hookVars, workerVars, apiVars, cryptoVars>>

\* checkRateLimit from redis.expire on, for the request that created the counter
RateExpire(r) ==
  /\ req[r].pc = "expire"
  /\ LET id == req[r].sk
         limit == sharedKeys[id].rateLimit
         t == req[r].rlNow
         key == <<id, WindowIndex(t, RATE_WINDOW_SECONDS)>>
     IN IF ~redisUp
          THEN /\ AfterRateLimit(r, t, req[r].current,
                                 RateFailOpen(limit, t, RATE_WINDOW_SECONDS))
               /\ UNCHANGED ratelimit
          ELSE /\ ratelimit' = [ratelimit EXCEPT ![key].expireAt =
                                  IF ratelimit[key].count > 0
                                    THEN now + RATE_WINDOW_SECONDS ELSE NoDate]
               /\ AfterRateLimit(r, t, req[r].current,
                                 RateResult(req[r].current, limit, t, RATE_WINDOW_SECONDS))
  /\ UNCHANGED <<now, dbVars, redisUp, latency, focus, upstreamCalls, arrivals,
                 rotVars, sigVars, susVars,
                 hookVars, workerVars, apiVars, cryptoVars>>

RECURSIVE ProvidersOf(_, _)
ProvidersOf(ids, keys) ==
  IF ids = <<>> THEN <<>> ELSE <<keys[Head(ids)].provider>> \o ProvidersOf(Tail(ids), keys)

\* the candidate list of a request on shared key `id`
Candidates(id, model, sks, keys, lat) ==
  LET ref == sks[id].apiKeyId
      avail == AvailableApiKeys(keys, sks[id].ownerId, keys[ref].teamId)
      best == BestProvider(model, ProvidersOf(avail, keys), lat, keys[ref].provider)
  IN SortedApiKeys(avail, keys, best, ref)

\* body parse, findMany, getFastestProvider, sort
Route(r) ==
  /\ req[r].pc = "route"
  /\ LET id == req[r].sk
         ref == sharedKeys[id].apiKeyId
         avail == AvailableApiKeys(apiKeys, sharedKeys[id].ownerId, apiKeys[ref].teamId)
         sorted == Candidates(id, req[r].model, sharedKeys, apiKeys, latency)
     IN IF (ReadsLatency(req[r].model, ProvidersOf(avail, apiKeys)) /\ ~redisUp)
            \/ sorted = <<>>
          THEN Respond(r, 500, "INTERNAL")
          ELSE req' = [req EXCEPT ![r].pc = "fetch", ![r].cands = sorted, ![r].i = 1,
                                  ![r].selected = sorted[1]]
  /\ UNCHANGED <<now, dbVars, redisUp, ratelimit, latency, focus, upstreamCalls,
                 arrivals, rotVars, sigVars, susVars,
                 hookVars, workerVars, apiVars, cryptoVars>>

UpstreamStatus(outcome) ==
  CASE outcome = "2xx" -> 200
    [] outcome = "4xx" -> 404
    [] outcome = "5xx" -> 500
    [] OTHER -> NoStatus

\* proxyResponse.ok
ResponseOk(status) == status >= 200 /\ status <= 299

\* the loop leaves on an ok response
BreaksLoop(status) == ResponseOk(status)

\* await fetch(...) settles with outcome o: the response, or the catch block
FetchSettles(r, key, last, o) ==
  LET status == UpstreamStatus(o)
      completed == status # NoStatus
  IN \E b \in IF completed THEN ResponseBodies(focus) ELSE {req[r].body} :
       req' = [req EXCEPT
         ![r].selected = key,
         ![r].body = b,
         ![r].attempts = Append(req[r].attempts, <<key, o>>),
         ![r].resp = IF completed THEN status ELSE req[r].resp,
         ![r].respKey = IF completed THEN key ELSE req[r].respKey,
         ![r].i = req[r].i + 1,
         ![r].pc = IF (completed /\ BreaksLoop(status)) \/ last
                     THEN "finish" ELSE "fetch"]

\* one iteration of the candidate loop; fetch is called without a signal, so
\* while the upstream sends no response headers the handler stays in the await
Fetch(r) ==
  /\ req[r].pc = "fetch"
  /\ LET key == req[r].cands[req[r].i]
         last == req[r].i = Len(req[r].cands)
     IN IF apiKeys[key].provider \notin PROVIDER_ENDPOINTS
          THEN /\ req' = [req EXCEPT ![r].selected = key, ![r].i = req[r].i + 1,
                                     ![r].pc = IF last THEN "finish" ELSE "fetch"]
               /\ UNCHANGED upstreamCalls
          ELSE \E o \in UpstreamModes(focus) :
                 /\ upstreamCalls' = upstreamCalls + 1
                 /\ IF o = "hang"
                      THEN req' = [req EXCEPT ![r].selected = key, ![r].pc = "waiting",
                                              ![r].fetchAt = now]
                      ELSE FetchSettles(r, key, last, o)
  /\ UNCHANGED <<now, dbVars, redisUp, ratelimit, latency, focus, arrivals,
                 rotVars, sigVars, susVars,
                 hookVars, workerVars, apiVars, cryptoVars>>

\* a fetch that was waiting for response headers settles: the upstream
\* answers at last, or the connection or the runtime fails the call
UpstreamWakes(r) ==
  /\ req[r].pc = "waiting"
  /\ \E o \in UpstreamOutcomes :
       FetchSettles(r, req[r].cands[req[r].i], req[r].i = Len(req[r].cands), o)
  /\ UNCHANGED <<now, dbVars, redisUp, ratelimit, latency, focus, upstreamCalls, arrivals,
                 rotVars, sigVars, susVars, hookVars, workerVars, apiVars, cryptoVars>>

\* the request a slot is serving: the slot and the number of requests it has served
RequestId(r) == <<r, req[r].gen>>

UsageLog(r, status) ==
  [request |-> RequestId(r), apiKeyId |-> req[r].selected, sharedKeyId |-> req[r].sk,
   provider |-> apiKeys[req[r].selected].provider, model |-> req[r].model,
   endpoint |-> req[r].endpoint, statusCode |-> status,
   requestTokens |-> Stored(extractTokens(status, req[r].body).requestTokens),
   responseTokens |-> Stored(extractTokens(status, req[r].body).responseTokens),
   totalTokens |-> Stored(extractTokens(status, req[r].body).totalTokens)]

\* the usage records the handler writes when it answers with an upstream response
UsageRecords(r, status) == SetToBag({UsageLog(r, status)})

\* after the loop: 502, or recordLatency, the usage writes and the response
Finish(r) ==
  /\ req[r].pc = "finish"
  /\ IF req[r].resp = NoStatus
       THEN /\ Respond(r, 502, "ALL_FAILED")
            /\ UNCHANGED <<dbVars, latency, susVars>>
     ELSE IF ResponseOk(req[r].resp) /\ ~redisUp
       THEN /\ Respond(r, 500, "INTERNAL")
            /\ UNCHANGED <<dbVars, latency, susVars>>
     ELSE /\ IF ResponseOk(req[r].resp)
               THEN \E ms \in LatencySamples(focus) :
                      latency' = [latency EXCEPT ![apiKeys[req[r].selected].provider] = ms]
               ELSE UNCHANGED latency
          /\ usageLogs' = usageLogs (+) UsageRecords(r, req[r].resp)
          /\ pendingUsage' = [pendingUsage EXCEPT ![req[r].sk] = @ (+) SetToBag({now})]
          /\ apiKeys' = [apiKeys EXCEPT ![req[r].selected].lastUsedAt = now]
          /\ UNCHANGED sharedKeys
          /\ req' = [req EXCEPT ![r].pc = "done", ![r].status = req[r].resp,
                                ![r].reason = None,
                                ![r].xFeenProvider = apiKeys[req[r].selected].provider]
  /\ UNCHANGED <<now, redisUp, ratelimit, focus, upstreamCalls, arrivals,
                 rotVars, sigVars, susVars,
                 hookVars, workerVars, apiVars, cryptoVars>>

\* a fire-and-forget db.sharedKey.update({ usageCount: { increment: 1 } }) commits
CommitUsage(id) ==
  /\ \E t \in BagToSet(pendingUsage[id]) :
       /\ sharedKeys' = [sharedKeys EXCEPT ![id].usageCount = @ + 1,
                                           ![id].lastUsedAt = t]
       /\ pendingUsage' = [pendingUsage EXCEPT ![id] = @ (-) SetToBag({t})]
  /\ UNCHANGED <<now, apiKeys, usageLogs, redisUp, ratelimit, latency, focus,
                 upstreamCalls, req, arrivals, rotVars, sigVars, susVars,
                 hookVars, workerVars, apiVars, cryptoVars>>

\* the connection of an answered request closes; its slot serves the next one
Release(r) ==
  /\ req[r].pc = "done"
  /\ req' = [req EXCEPT ![r] = [IdleReq EXCEPT !.gen = req[r].gen]]
  /\ UNCHANGED <<now, dbVars, redisUp, ratelimit, latency, focus, upstreamCalls,
                 arrivals, rotVars, sigVars, susVars,
                 hookVars, workerVars, apiVars, cryptoVars>>

(***************************************************************************)
(* Initial states.                                                         *)
(***************************************************************************)
StartTime == RATE_WINDOW_SECONDS

ApiKeyRow(user, team, provider) ==
  [userId |-> user, teamId |-> team, provider |-> provider, isActive |-> TRUE,
   lastUsedAt |-> NoDate]

\* k1, k2 belong to u1, k3 to u2; k1 in team t1, k2 and k3 in no team
ApiKeySetup(t1, p2, t3) ==
  [id \in SeqRange(ApiKeyIds) |->
     CASE id = "k1" -> ApiKeyRow("u1", t1, "OPENAI")
       [] id = "k2" -> ApiKeyRow("u1", NoTeam, p2)
       [] OTHER -> ApiKeyRow("u2", t3, "GROQ")]

BaseApiKeys == ApiKeySetup("t1", "TOGETHER", NoTeam)

ApiKeySetups ==
  {ApiKeySetup(t1, p2, t3) :
     t1 \in {NoTeam, "t1"}, p2 \in {"TOGETHER", "AZURE_OPENAI"}, t3 \in {NoTeam, "t1"}}

\* the shared token "sk1" of user u1 on key k1
BaseSharedKey ==
  [apiKeyId |-> "k1", ownerId |-> "u1", accessToken |-> InitialToken,
   tokenHash |-> hash(InitialToken), isActive |-> TRUE, expiresAt |-> NoDate,
   maxUsage |-> 0, usageCount |-> 0, allowedIPs |-> {}, rateLimit |-> 2,
   scopes |-> {ScopeAll}, requireSignature |-> FALSE, signingSecret |-> GoodSecret,
   lastUsedAt |-> NoDate, dailyLimit |-> 1]

\* every policy of the token: active, expiry, usage cap, IP list, rate limit
PolicyRows ==
  {[BaseSharedKey EXCEPT !.isActive = a, !.expiresAt = e, !.maxUsage = u[1],
                         !.usageCount = u[2], !.allowedIPs = ips, !.rateLimit = l] :
     a \in BOOLEAN, e \in {NoDate, 30, 3600}, u \in {<<0, 0>>, <<1, 0>>, <<1, 1>>},
     ips \in {{}, {"10.0.0.7"}, {"10.0.0.0/24"}, {"unknown"}}, l \in {1, 2}}

\* every scope set and signature requirement of the token, expired or not
GuardRows ==
  {[BaseSharedKey EXCEPT !.scopes = sc, !.requireSignature = rs, !.expiresAt = e] :
     sc \in {{ScopeAll}, {"embeddings:write"}, {}}, rs \in BOOLEAN, e \in {NoDate, 30}}

Windows == 0..MaxWindows

EmptyRateLimit == [k \in SharedKeyIds \X Windows |-> [count |-> 0, expireAt |-> NoDate]]

\* the rotateToken calls that may be in progress at once
RotSlots == {1, 2}

IdleRot == [pc |-> "idle", tokenId |-> None, newAccessToken |-> <<"", 0>>,
            oldToken |-> <<"", 0>>, reason |-> None]

\* the event types recordSuspiciousActivity is called with in the model
SuspTypes == {"invalid_signature", "ip_blacklisted", "replay_attack"}

EmptyList == [events |-> <<>>, expireAt |-> NoDate]

\* recordSuspiciousActivity calls are made one after the other
SusSlots == {1}

\* dashboard API calls in flight
ApiSlots == {1, 2}

\* no code submitted
NoCode == [len |-> 0, value |-> <<"text", "">>]

IdleApi == [pc |-> "idle", gen |-> 0, op |-> None, user |-> None, apiKeyId |-> None,
            sharedKeyId |-> None, accessToken |-> <<"", 0>>, status |-> NoStatus,
            code |-> NoCode, codes |-> {}, returned |-> None]

\* no 2fa:secret:<user> entry, no backup codes
\* no decrypt has returned
NoOut == [error |-> "pending", plaintext |-> <<>>]

\* nothing has been encrypted
EmptyVault ==
  [pc |-> "empty", plaintext |-> <<>>, original |-> <<"base64", <<>>>>,
   stored |-> <<"base64", <<>>>>, tampers |-> 0, out |-> NoOut]

NoTwoFactor == [secret |-> None, backup |-> {}]

IdleSus == [pc |-> "idle", gen |-> 0, tokenId |-> None, type |-> None, counted |-> <<>>,
            at |-> NoDate, rotates |-> FALSE]

\* every variable but the suspicious lists
InitBase ==
  /\ usageLogs = EmptyBag
  /\ pendingUsage = [id \in SharedKeyIds |-> EmptyBag]
  /\ ratelimit = EmptyRateLimit
  /\ latency = [p \in Providers |-> 0]
  /\ upstreamCalls = 0
  /\ arrivals = 0
  /\ minted = 1
  /\ retired = {}
  /\ rot = [k \in RotSlots |-> IdleRot]
  /\ auditLog = EmptyBag
  /\ notifications = <<>>
  /\ sus = [c \in SusSlots |-> IdleSus]
  /\ nonceCache = [s \in 1..NumServers |-> {}]
  /\ accepted = EmptyBag
  /\ sigResult = NoSigResult
  /\ webhooksQueue = <<>>
  /\ webhookConfigs = [u \in Users |-> <<>>]
  /\ deliveries = EmptyBag
  /\ sweepLog = <<>>
  /\ api = [c \in ApiSlots |-> IdleApi]
  /\ twoFactor = [u \in Users |-> NoTwoFactor]
  /\ revealed = EmptyBag
  /\ vault = EmptyVault

InitCommon ==
  /\ InitBase
  /\ suspicious = [k \in SharedKeyIds \X SuspTypes |-> EmptyList]

\* the signature headers a client may put on a POST to `endpoint` at StartTime
SigHeadersFor(endpoint) ==
  {NoSigHeaders,
   signRequest(StartTime, "n1", "POST", endpoint, "{}", "sk1", GoodSecret),
   signRequest(StartTime, "n1", "POST", endpoint, "{}", "sk1", WrongSecret)}

BaseInput ==
  [auth |-> <<"Bearer", InitialToken>>, xff |-> "10.0.0.7",
   endpoint |-> "v1/chat/completions", sig |-> NoSigHeaders, model |-> NoModel]

\* the requests the clients of a run send
ClientInputs(f) ==
  CASE f = "policy" ->
         RequestInputs(AuthHeaders(1), ForwardedFor, {BaseInput.endpoint},
                       {BaseInput.sig}, {BaseInput.model})
    [] f \in {"fallback", "route"} ->
         RequestInputs({BaseInput.auth}, {BaseInput.xff}, {BaseInput.endpoint},
                       {BaseInput.sig}, Models)
    [] f = "guard" ->
         UNION {RequestInputs({BaseInput.auth}, {BaseInput.xff}, {e}, SigHeadersFor(e),
                              {BaseInput.model}) : e \in Endpoints}
    [] f = "rotation" ->
         RequestInputs({<<"Bearer", generateAccessToken(k)>> : k \in 1..(MaxRotations + 1)},
                       {BaseInput.xff}, {BaseInput.endpoint}, {BaseInput.sig},
                       {BaseInput.model})
    [] OTHER -> {BaseInput}

\* the number of requests of a run
RequestCap(f) ==
  CASE f = "policy" -> MaxRequests
    [] f = "fallback" -> MaxFallbackRequests
    [] f = "route" -> MaxRouteRequests
    [] f = "usage" -> MaxUsageRequests
    [] f = "guard" -> MaxGuardRequests
    [] f = "rotation" -> RotRequests
    [] OTHER -> NumClients

\* the steps of the requests
Requests ==
  \/ \E r \in DOMAIN req : \E in \in ClientInputs(focus) :
       arrivals < RequestCap(focus) /\ Arrive(r, in)
  \/ \E r \in DOMAIN req : Lookup(r)
  \/ \E r \in DOMAIN req : RateIncr(r)
  \/ \E r \in DOMAIN req : RateExpire(r)
  \/ \E r \in DOMAIN req : Route(r)
  \/ \E r \in DOMAIN req : Fetch(r)
  \/ \E r \in DOMAIN req : Finish(r)
  \/ \E id \in SharedKeyIds : CommitUsage(id)

(***************************************************************************)
(* Spec: the policy checks.  Requests with every Authorization header and  *)
(* client address, one after the other, on a token under every policy.     *)
(***************************************************************************)
Init ==
  /\ InitCommon
  /\ focus = "policy"
  /\ now = StartTime
  /\ sharedKeys \in [SharedKeyIds -> PolicyRows]
  /\ apiKeys = BaseApiKeys
  /\ redisUp \in BOOLEAN
  /\ req = [r \in {1} |-> IdleReq]

Next ==
  \/ Requests
  \/ \E r \in DOMAIN req : Release(r)

Spec == Init /\ [][Next]_vars

(***************************************************************************)
(* SpecUsage: token-usage extraction.  Requests answered by upstreams that *)
(* send every body: not JSON, JSON without a usage block, and every usage  *)
(* block.                                                                  *)
(***************************************************************************)
InitUsage ==
  /\ InitCommon
  /\ focus = "usage"
  /\ now = StartTime
  /\ sharedKeys = [id \in SharedKeyIds |-> BaseSharedKey]
  /\ apiKeys = BaseApiKeys
  /\ redisUp = TRUE
  /\ req = [r \in {1} |-> IdleReq]

SpecUsage == InitUsage /\ [][Next]_vars

(***************************************************************************)
(* SpecFallback: routing and the candidate loop.  One request with every   *)
(* model, on every key set, against upstreams showing every outcome.       *)
(***************************************************************************)
InitFallback ==
  /\ InitCommon
  /\ focus = "fallback"
  /\ now = StartTime
  /\ \E ref \in {"k1", "k2"} :
       sharedKeys = [id \in SharedKeyIds |-> [BaseSharedKey EXCEPT !.apiKeyId = ref]]
  /\ apiKeys \in ApiKeySetups
  /\ redisUp \in BOOLEAN
  /\ req = [r \in {1} |-> IdleReq]

SpecFallback == InitFallback /\ [][Next]_vars

(***************************************************************************)
(* SpecRoute: latency-aware routing.  One request with every model, on     *)
(* every key set, with every content of the latency cache.                 *)
(***************************************************************************)
\* the cached latencies, ms (0 = no entry)
CachedLatencies == {0, 40, 300}

\* the owner has deactivated every key
InactiveApiKeys == [id \in DOMAIN BaseApiKeys |-> [BaseApiKeys[id] EXCEPT !.isActive = FALSE]]

InitRoute ==
  /\ usageLogs = EmptyBag
  /\ pendingUsage = [id \in SharedKeyIds |-> EmptyBag]
  /\ ratelimit = EmptyRateLimit
  /\ latency \in [Providers -> CachedLatencies]
  /\ upstreamCalls = 0
  /\ arrivals = 0
  /\ minted = 1
  /\ retired = {}
  /\ rot = [k \in RotSlots |-> IdleRot]
  /\ auditLog = EmptyBag
  /\ notifications = <<>>
  /\ suspicious = [k \in SharedKeyIds \X SuspTypes |-> EmptyList]
  /\ sus = [c \in SusSlots |-> IdleSus]
  /\ nonceCache = [s \in 1..NumServers |-> {}]
  /\ accepted = EmptyBag
  /\ sigResult = NoSigResult
  /\ webhooksQueue = <<>>
  /\ webhookConfigs = [u \in Users |-> <<>>]
  /\ deliveries = EmptyBag
  /\ sweepLog = <<>>
  /\ api = [c \in ApiSlots |-> IdleApi]
  /\ twoFactor = [u \in Users |-> NoTwoFactor]
  /\ revealed = EmptyBag
  /\ vault = EmptyVault
  /\ focus = "route"
  /\ now = StartTime
  /\ sharedKeys = [id \in SharedKeyIds |-> BaseSharedKey]
  /\ apiKeys \in ApiKeySetups \cup {InactiveApiKeys}
  /\ redisUp = TRUE
  /\ req = [r \in {1} |-> IdleReq]

SpecRoute == InitRoute /\ [][Next]_vars

(***************************************************************************)
(* SpecGuard: scopes and signatures.  One request to every endpoint with   *)
(* every signature, on a token with every scope set and signing rule.      *)
(***************************************************************************)
InitGuard ==
  /\ InitCommon
  /\ focus = "guard"
  /\ now = StartTime
  /\ sharedKeys \in [SharedKeyIds -> GuardRows]
  /\ apiKeys = BaseApiKeys
  /\ redisUp = TRUE
  /\ req = [r \in {1} |-> IdleReq]

SpecGuard == InitGuard /\ [][Next]_vars


(***************************************************************************)
(* SpecRate: the rate limiter.  NumClients concurrent requests that pass   *)
(* the policy checks, under every interleaving of their steps, while the   *)
(* clock runs through the windows and the fast store may go down.          *)
(***************************************************************************)
\* Redis drops the counters whose TTL has run out at time t
ExpireKeys(rl, t) ==
  [k \in DOMAIN rl |->
     IF rl[k].expireAt # NoDate /\ rl[k].expireAt <= t
       THEN [count |-> 0, expireAt |-> NoDate] ELSE rl[k]]

Tick ==
  /\ now + TickSeconds < MaxWindows * RATE_WINDOW_SECONDS
  /\ now' = now + TickSeconds
  /\ ratelimit' = ExpireKeys(ratelimit, now + TickSeconds)
  /\ UNCHANGED <<dbVars, redisUp, latency, focus, upstreamCalls, req, arrivals, rotVars,
                 sigVars, susVars,
                 hookVars, workerVars, apiVars, cryptoVars>>

RedisOutage ==
  /\ redisUp
  /\ redisUp' = FALSE
  /\ UNCHANGED <<now, dbVars, ratelimit, latency, focus, upstreamCalls, req, arrivals,
                 rotVars, sigVars, susVars,
                 hookVars, workerVars, apiVars, cryptoVars>>

RateLimits == {1, 2, 3}

InitRate ==
  /\ InitCommon
  /\ focus = "rate"
  /\ now = 0
  /\ \E l \in RateLimits :
       sharedKeys = [id \in SharedKeyIds |-> [BaseSharedKey EXCEPT !.rateLimit = l]]
  /\ apiKeys = BaseApiKeys
  /\ redisUp = TRUE
  /\ req = [r \in 1..NumClients |-> IdleReq]

NextRate ==
  \/ Requests
  \/ Tick
  \/ RedisOutage

SpecRate == InitRate /\ [][NextRate]_vars


(***************************************************************************)
(* Rate limiting under concurrency.                                        *)
(***************************************************************************)
\* the requests whose checkRateLimit call read the clock in window w
WindowRequests(w) ==
  {r \in DOMAIN req : (req[r].pc = "expire" \/ req[r].rl # NoRate)
                      /\ WindowIndex(req[r].rlNow, RATE_WINDOW_SECONDS) = w}

\* every checkRateLimit call of window w has returned, none through the catch branch
WindowSettled(w) ==
  \A r \in WindowRequests(w) : req[r].pc # "expire" /\ ~req[r].rl.failOpen

WindowAllowed(w) == {r \in WindowRequests(w) : req[r].rl.allowed}

\* C1: of the N requests that pass the policy checks and reach the rate limiter
\* within one window, with the fast store reachable, exactly min(N, limit) are
\* allowed, every other one is answered 429, and while the window lasts its
\* counter reads N.
C1_ExactlyMinAllowed ==
  \A id \in SharedKeyIds : \A w \in Windows :
    WindowSettled(w) =>
      LET n == Cardinality(WindowRequests(w))
      IN /\ Cardinality(WindowAllowed(w)) = Min(n, sharedKeys[id].rateLimit)
         /\ \A r \in WindowRequests(w) \ WindowAllowed(w) :
              req[r].pc = "done" /\ req[r].status = 429
         /\ w = WindowIndex(now, RATE_WINDOW_SECONDS) => ratelimit[<<id, w>>].count = n

\* two requests in one window on a token of limit 1: one allowed, one answered 429
C1_Witness ==
  \E w \in Windows :
    /\ WindowSettled(w)
    /\ w = WindowIndex(now, RATE_WINDOW_SECONDS)
    /\ Cardinality(WindowRequests(w)) > sharedKeys["sk1"].rateLimit
    /\ \E r \in WindowRequests(w) : req[r].status = 429 /\ req[r].reason = "RATE_LIMITED"
    /\ \E r \in WindowAllowed(w) : req[r].pc = "done" /\ req[r].status = 200
    /\ ratelimit[<<"sk1", w>>].count = Cardinality(WindowRequests(w))

(***************************************************************************)
(* Rejection before routing.                                               *)
(***************************************************************************)
\* the reasons handleProxy rejects a request for before it routes it
RejectReasons ==
  {"NO_BEARER", "BAD_FORMAT", "NOT_FOUND", "EXPIRED", "USAGE_LIMIT", "IP_DENIED",
   "RATE_LIMITED"}

\* the token of shared key `id` is past its expiry
TokenExpired(id) ==
  sharedKeys[id].expiresAt # NoDate /\ sharedKeys[id].expiresAt < now

\* C2: a request rejected before routing (missing or ill-formed bearer, unknown
\* or inactive token, expired token, usage cap, client address, rate limit) has
\* issued no upstream call; while the token is expired every answer is 401 and
\* the upstream call counter stays 0.
C2_RejectedNeverForwarded ==
  /\ \A r \in DOMAIN req :
       req[r].reason \in RejectReasons =>
         req[r].pc = "done" /\ req[r].attempts = <<>> /\ req[r].cands = <<>>
  /\ \A id \in SharedKeyIds :
       TokenExpired(id) =>
         /\ upstreamCalls = 0
         /\ \A r \in DOMAIN req : req[r].pc = "done" => req[r].status = 401

\* the second call with an expired token is answered 401, no upstream call made
C2_Witness ==
  \E r \in DOMAIN req :
    /\ TokenExpired("sk1")
    /\ arrivals >= 2
    /\ req[r].pc = "done" /\ req[r].reason = "EXPIRED" /\ req[r].status = 401
    /\ upstreamCalls = 0

(***************************************************************************)
(* Routing and fallback.                                                   *)
(***************************************************************************)
\* the owner's key set of shared key `id`: the owner's own keys and the keys
\* shared through the team of the key the token references
OwnerKeySet(id) ==
  LET owner == sharedKeys[id].ownerId
      team == apiKeys[sharedKeys[id].apiKeyId].teamId
  IN {k \in SeqRange(ApiKeyIds) :
        apiKeys[k].userId = owner \/ (team # NoTeam /\ apiKeys[k].teamId = team)}

\* C3: every API key sent upstream belongs to the key set of the token's owner
\* (the owner's keys, or keys shared through the team of the referenced key),
\* never to another user, also when the referenced key has no team.
C3_OnlyOwnersKeys ==
  \A r \in DOMAIN req : \A i \in 1..Len(req[r].attempts) :
    req[r].attempts[i][1] \in OwnerKeySet(req[r].sk)

FallbackOutcomes == {"5xx", "throw"}

\* the first attempt of request r that completed with a response below 500
FirstCommitted(r) ==
  LET hits == {i \in 1..Len(req[r].attempts) : req[r].attempts[i][2] \notin FallbackOutcomes}
  IN IF hits = {} THEN 0 ELSE CHOOSE i \in hits : \A j \in hits : i <= j

\* C4: the candidates are tried one after the other, candidate k+1 only after
\* candidate k ended in a transport error or a 5xx; the first other response,
\* a 4xx included, is the one the client receives.
C4_FallbackOnlyAfterFailure ==
  \A r \in DOMAIN req :
    /\ \A i \in 1..(Len(req[r].attempts) - 1) : req[r].attempts[i][2] \in FallbackOutcomes
    /\ (req[r].pc = "done" /\ req[r].reason = None /\ FirstCommitted(r) # 0) =>
         req[r].status = UpstreamStatus(req[r].attempts[FirstCommitted(r)][2])

\* C5: when every candidate ended in a 5xx or a transport error the client
\* receives 502 "All available providers failed", never an upstream 5xx.
C5_AllFailedIs502 ==
  \A r \in DOMAIN req :
    (/\ req[r].pc = "done"
     /\ req[r].attempts # <<>>
     /\ \A i \in 1..Len(req[r].attempts) : req[r].attempts[i][2] \in FallbackOutcomes)
      => req[r].status = 502 /\ req[r].reason = "ALL_FAILED"

(***************************************************************************)
(* Usage records.                                                          *)
(***************************************************************************)
\* the usage records of request r
UsageRecordsOf(r) == {u \in BagToSet(usageLogs) : u.request = RequestId(r)}

\* C6: every answered proxy request has exactly one usage record, and the
\* record's status code is the status the client received.
C6_OneUsageRecordPerRequest ==
  \A r \in DOMAIN req :
    req[r].pc = "done" =>
      \E u \in UsageRecordsOf(r) :
        /\ UsageRecordsOf(r) = {u}
        /\ CopiesIn(u, usageLogs) = 1
        /\ u.statusCode = req[r].status

(***************************************************************************)
(* SpecSig: request signing.  Signed requests are presented, again and     *)
(* again while the clock runs, to verifySignedRequest on NumServers server *)
(* processes, each with the NONCE_CACHE of its own module instance.        *)
(***************************************************************************)
SigMethod == "POST"
SigPath == "v1/chat/completions"
SigBody == "{}"

\* the times clients sign at
SignTimes == {StartTime, StartTime + 2 * SigTickSeconds}

\* a signature header that is not 64 characters long
ShortSignature == [len |-> 8, mac |-> <<"deadbeef">>]

\* the header sets presented: well signed, signed with a wrong secret, and
\* with a broken timestamp, signature or nonce header
SigInputs ==
  {signRequest(t, "n1", SigMethod, SigPath, SigBody, "sk1", secret) :
     t \in SignTimes, secret \in {GoodSecret, WrongSecret}}
  \cup {NoSigHeaders,
        [signRequest(StartTime, "n1", SigMethod, SigPath, SigBody, "sk1", GoodSecret)
           EXCEPT !.timestamp = <<"nan", 0>>],
        [signRequest(StartTime, "n1", SigMethod, SigPath, SigBody, "sk1", GoodSecret)
           EXCEPT !.signature = ShortSignature]}

\* a handler of server process s verifies the request carrying headers h
VerifySigned(s, h) ==
  /\ LET res == verifySignedRequest(h, SigMethod, SigPath, SigBody, "sk1",
                                    sharedKeys["sk1"].signingSecret, now, nonceCache[s])
     IN /\ nonceCache' = [nonceCache EXCEPT ![s] = res.cache]
        /\ accepted' = IF res.valid THEN accepted (+) SetToBag({h}) ELSE accepted
        /\ sigResult' = [server |-> s, headers |-> h, error |-> res.error]
  /\ UNCHANGED <<now, dbVars, redisUp, ratelimit, latency, focus, upstreamCalls, req,
                 arrivals, rotVars, susVars,
                 hookVars, workerVars, apiVars, cryptoVars>>

SigTick ==
  /\ now + SigTickSeconds <= StartTime + MaxSigTicks * SigTickSeconds
  /\ now' = now + SigTickSeconds
  /\ UNCHANGED <<dbVars, redisUp, ratelimit, latency, focus, upstreamCalls, req,
                 arrivals, rotVars, sigVars, susVars,
                 hookVars, workerVars, apiVars, cryptoVars>>

InitSig ==
  /\ InitCommon
  /\ focus = "signature"
  /\ now = StartTime
  /\ sharedKeys = [id \in SharedKeyIds |-> [BaseSharedKey EXCEPT !.requireSignature = TRUE]]
  /\ apiKeys = BaseApiKeys
  /\ redisUp = TRUE
  /\ req = [r \in {1} |-> IdleReq]

NextSig ==
  \/ \E s \in 1..NumServers : \E h \in SigInputs : VerifySigned(s, h)
  \/ SigTick

SpecSig == InitSig /\ [][NextSig]_vars

\* C8: a signed request (token id, nonce, timestamp, signature) is accepted at
\* most once, whenever and on whichever server process it is presented again.
C8_AcceptedAtMostOnce ==
  \A h \in BagToSet(accepted) : CopiesIn(h, accepted) <= 1

(***************************************************************************)
(* Scopes and signatures on the proxy path.                                *)
(***************************************************************************)
\* request r was sent upstream
Forwarded(r) == req[r].attempts # <<>>

\* C9: a request to an endpoint with a non-empty required scope set is forwarded
\* only if the token's scopes hold a required scope or "*"; otherwise it is
\* answered 403 and nothing is sent upstream.
C9_ScopeEnforced ==
  \A r \in DOMAIN req :
    (req[r].sk # None /\ ~hasRequiredScope(sharedKeys[req[r].sk].scopes, req[r].endpoint)) =>
      /\ ~Forwarded(r)
      /\ (req[r].pc = "done" /\ req[r].reason \notin RejectReasons) => req[r].status = 403

\* C10: a request on a token with requireSignature is forwarded only if it
\* carries the three X-Feen signature headers and verifySignature accepts them.
C10_SignatureEnforced ==
  \A r \in DOMAIN req :
    (req[r].sk # None /\ sharedKeys[req[r].sk].requireSignature /\ Forwarded(r)) =>
      /\ extractSignatureHeaders(req[r].sig)
      /\ verifySignature(req[r].sig, "POST", req[r].endpoint, "{}", req[r].sk,
                         sharedKeys[req[r].sk].signingSecret, now, {}).valid

(***************************************************************************)
(* rotateToken, one step per await point.                                  *)
(***************************************************************************)
\* an update that replaces accessToken and leaves tokenHash as it was
RotatedRowKeepsHash(row, newAccessToken) ==
  [row EXCEPT !.accessToken = newAccessToken]

\* the row db.sharedKey.update writes: accessToken and tokenHash replaced
\* (updatedAt is not part of the model)
RotatedRow(row, newAccessToken) ==
  [row EXCEPT !.accessToken = newAccessToken, !.tokenHash = hash(newAccessToken)]

\* rotateToken up to its first await: generateAccessToken, hash, and the
\* db.sharedKey.findUnique call is issued
BeginRotation(k, id, reason) ==
  /\ minted' = minted + 1
  /\ rot' = [rot EXCEPT ![k] = [IdleRot EXCEPT !.pc = "find", !.tokenId = id,
                                  !.newAccessToken = generateAccessToken(minted + 1),
                                  !.reason = reason]]

\* requestTokenRotation: rotateToken(tokenId, userId, "manual_rotation")
RotStart(k, id) ==
  /\ rot[k].pc \in {"idle", "done", "failed"}
  /\ minted <= MaxRotations
  /\ BeginRotation(k, id, "manual_rotation")
  /\ UNCHANGED <<now, dbVars, redisUp, ratelimit, latency, focus, upstreamCalls, req,
                 arrivals, retired, auditLog, notifications, sigVars, susVars,
                 hookVars, workerVars, apiVars, cryptoVars>>

\* db.sharedKey.findUnique returns the current accessToken
RotFind(k) ==
  /\ rot[k].pc = "find"
  /\ rot' = [rot EXCEPT ![k].pc = "update",
                        ![k].oldToken = sharedKeys[rot[k].tokenId].accessToken]
  /\ UNCHANGED <<now, dbVars, redisUp, ratelimit, latency, focus, upstreamCalls, req,
                 arrivals, minted, retired, auditLog, notifications, sigVars, susVars,
                 hookVars, workerVars, apiVars, cryptoVars>>

\* db.sharedKey.update commits
RotUpdate(k) ==
  /\ rot[k].pc = "update"
  /\ LET id == rot[k].tokenId
     IN /\ sharedKeys' = [sharedKeys EXCEPT ![id] = RotatedRow(@, rot[k].newAccessToken)]
        /\ retired' = retired \cup {sharedKeys[id].accessToken}
  /\ rot' = [rot EXCEPT ![k].pc = "clear"]
  /\ UNCHANGED <<now, apiKeys, usageLogs, pendingUsage, redisUp, ratelimit, latency, focus,
                 upstreamCalls, req, arrivals, minted, auditLog, notifications, sigVars,
                 susVars,
                 hookVars, workerVars, apiVars, cryptoVars>>

\* a store that clears the lists of every token
clearEveryViolationCount(lists, tokenId) == [key \in DOMAIN lists |-> EmptyList]

\* redis.keys(`suspicious:${tokenId}:*`) and redis.del of the keys found
clearViolationCounts(lists, tokenId) ==
  [key \in DOMAIN lists |-> IF key[1] = tokenId THEN EmptyList ELSE lists[key]]

\* redis.keys / redis.del of the suspicious counters; throws when the fast
\* store is down
RotClear(k) ==
  /\ rot[k].pc = "clear"
  /\ rot' = [rot EXCEPT ![k].pc = IF redisUp THEN "audit" ELSE "failed"]
  /\ suspicious' = IF redisUp
                     THEN clearViolationCounts(suspicious, rot[k].tokenId)
                     ELSE suspicious
  /\ UNCHANGED <<now, dbVars, redisUp, ratelimit, latency, focus, upstreamCalls, req,
                 arrivals, minted, retired, auditLog, notifications, sigVars, sus,
                 hookVars, workerVars, apiVars, cryptoVars>>

\* db.auditLog.create
RotAudit(k) ==
  /\ rot[k].pc = "audit"
  /\ auditLog' = auditLog (+) SetToBag({[action |-> "TOKEN_ROTATED",
                                        resourceId |-> rot[k].tokenId,
                                        userId |-> sharedKeys[rot[k].tokenId].ownerId,
                                        reason |-> rot[k].reason,
                                        oldToken |-> rot[k].oldToken,
                                        newToken |-> rot[k].newAccessToken]})
  /\ rot' = [rot EXCEPT ![k].pc = "notify"]
  /\ UNCHANGED <<now, dbVars, redisUp, ratelimit, latency, focus, upstreamCalls, req,
                 arrivals, minted, retired, notifications, sigVars, susVars,
                 hookVars, workerVars, apiVars, cryptoVars>>

\* queueRotationNotification, then rotateToken returns newAccessToken
RotNotify(k) ==
  /\ rot[k].pc = "notify"
  /\ IF redisUp
       THEN /\ notifications' = <<[type |-> "token_rotated", tokenId |-> rot[k].tokenId,
                                   reason |-> rot[k].reason]>> \o notifications
            /\ rot' = [rot EXCEPT ![k].pc = "done"]
       ELSE /\ rot' = [rot EXCEPT ![k].pc = "failed"]
            /\ UNCHANGED notifications
  /\ UNCHANGED <<now, dbVars, redisUp, ratelimit, latency, focus, upstreamCalls, req,
                 arrivals, minted, retired, auditLog, sigVars, susVars,
                 hookVars, workerVars, apiVars, cryptoVars>>

\* the steps of a rotateToken call after its start
RotationSteps ==
  \/ \E k \in DOMAIN rot : RotFind(k)
  \/ \E k \in DOMAIN rot : RotUpdate(k)
  \/ \E k \in DOMAIN rot : RotClear(k)
  \/ \E k \in DOMAIN rot : RotAudit(k)
  \/ \E k \in DOMAIN rot : RotNotify(k)

Rotations ==
  \/ \E k \in DOMAIN rot : \E id \in SharedKeyIds : RotStart(k, id)
  \/ RotationSteps

(***************************************************************************)
(* SpecRot: rotation.  rotateToken calls interleaved, step by step, with   *)
(* requests that present the first token and the tokens minted since.      *)
(***************************************************************************)
\* the policies of the token in SpecRot
RotRows ==
  {BaseSharedKey,
   [BaseSharedKey EXCEPT !.maxUsage = 3, !.usageCount = 1, !.allowedIPs = {"10.0.0.7"},
                         !.expiresAt = 3600, !.rateLimit = 1]}

InitRot ==
  /\ InitCommon
  /\ focus = "rotation"
  /\ now = StartTime
  /\ sharedKeys \in [SharedKeyIds -> RotRows]
  /\ apiKeys = BaseApiKeys
  /\ redisUp \in BOOLEAN
  /\ req = [r \in {1} |-> IdleReq]

NextRot ==
  \/ Requests
  \/ \E r \in DOMAIN req : Release(r)
  \/ Rotations

SpecRot == InitRot /\ [][NextRot]_vars

\* the fields of a shared key row that decide how a request is evaluated
PolicyFields(row) ==
  [apiKeyId |-> row.apiKeyId, ownerId |-> row.ownerId, isActive |-> row.isActive,
   expiresAt |-> row.expiresAt, maxUsage |-> row.maxUsage, usageCount |-> row.usageCount,
   allowedIPs |-> row.allowedIPs, rateLimit |-> row.rateLimit, scopes |-> row.scopes,
   requireSignature |-> row.requireSignature]

\* no replaced token resolves any more; the token a completed rotateToken
\* returned resolves to the rotated record unless a later rotation replaced it
C7_State ==
  /\ \A tok \in retired : \A xff \in ForwardedFor :
       LET v == PolicyVerdict(<<"Bearer", tok>>, xff, sharedKeys, now)
       IN v.status = 401 /\ v.reason = "NOT_FOUND"
  /\ \A k \in DOMAIN rot :
       rot[k].pc = "done" =>
         \/ rot[k].newAccessToken \in retired
         \/ FindSharedKey(sharedKeys, hash(rot[k].newAccessToken)) = rot[k].tokenId

\* a lookup with a replaced token answers 401; a lookup with the current token
\* of a record resolves to that record; replacing the token changes no policy field
C7_Step ==
  /\ \A r \in DOMAIN req :
       (req[r].pc = "lookup" /\ req'[r].pc # "lookup") =>
         /\ req[r].auth[2] \in retired => req'[r].pc = "done" /\ req'[r].status = 401
         /\ \A id \in SharedKeyIds :
              (req[r].auth = <<"Bearer", sharedKeys[id].accessToken>>) => req'[r].sk = id
  /\ \A id \in SharedKeyIds :
       sharedKeys'[id].accessToken # sharedKeys[id].accessToken =>
         /\ PolicyFields(sharedKeys'[id]) = PolicyFields(sharedKeys[id])
         /\ sharedKeys'[id].tokenHash = hash(sharedKeys'[id].accessToken)

\* C7: once rotateToken has replaced a token, every proxy request presenting
\* the replaced access token is answered 401 as invalid, and a request
\* presenting the new access token resolves to the same record, whose policy
\* fields (limits, expiry, IP list, usage count) the rotation left unchanged.
C7_RotationInvalidatesOld == []C7_State /\ [][C7_Step]_vars

\* rotateToken has completed; a request with the first token is answered 401
\* after an earlier request on the record was forwarded
C7_Witness ==
  \E k \in DOMAIN rot : \E r \in DOMAIN req :
    /\ rot[k].pc = "done"
    /\ InitialToken \in retired
    /\ req[r].pc = "done" /\ req[r].auth = <<"Bearer", InitialToken>>
    /\ req[r].status = 401 /\ req[r].reason = "NOT_FOUND"
    /\ \E u \in BagToSet(usageLogs) : u.request[2] < req[r].gen /\ u.statusCode = 200

(***************************************************************************)
(* Webhooks: registerWebhook, queueWebhook, processWebhookQueue.           *)
(***************************************************************************)
\* the webhook events of the model
WebhookEvents == {"token.rotated", "token.expiring_soon"}

\* registerWebhook: the config is appended to the user's list, active
RegisterWebhook(userId, events) ==
  /\ redisUp
  /\ Len(webhookConfigs["u1"]) + Len(webhookConfigs["u2"]) < MaxWebhooks
  /\ webhookConfigs' =
       [webhookConfigs EXCEPT ![userId] =
          Append(@, [id |-> <<userId, Len(@) + 1>>, events |-> events, active |-> TRUE,
                     userId |-> userId])]
  /\ auditLog' = auditLog (+) SetToBag({[action |-> "WEBHOOK_CREATED",
                                        resourceId |-> <<userId, Len(webhookConfigs[userId]) + 1>>,
                                        userId |-> userId, reason |-> None,
                                        oldToken |-> <<"", 0>>, newToken |-> <<"", 0>>]})
  /\ UNCHANGED <<now, dbVars, redisUp, ratelimit, latency, focus, upstreamCalls, req,
                 arrivals, minted, retired, rot, notifications, sigVars, susVars,
                 webhooksQueue, deliveries,
                 workerVars, apiVars, cryptoVars>>

\* queueWebhook(userId, event, data): redis.lpush("webhooks:queue", payload)
queueWebhook(userId, event) ==
  /\ redisUp
  /\ webhooksQueue' = <<[event |-> event, userId |-> userId]>> \o webhooksQueue
  /\ UNCHANGED <<webhookConfigs, deliveries>>

\* notifyTokenExpiring(userId, tokenId, ...)
NotifyTokenExpiring(id) ==
  /\ Len(webhooksQueue) + BagCardinality(deliveries) < MaxQueued
  /\ queueWebhook(sharedKeys[id].ownerId, "token.expiring_soon")
  /\ UNCHANGED <<now, dbVars, redisUp, ratelimit, latency, focus, upstreamCalls, req,
                 arrivals, rotVars, sigVars, susVars,
                 workerVars, apiVars, cryptoVars>>

\* getWebhookConfigs(userId, event): the active configs subscribed to the event
getWebhookConfigs(configs, userId, event) ==
  {configs[userId][i] : i \in {j \in DOMAIN configs[userId] :
                                  configs[userId][j].active /\ event \in configs[userId][j].events}}

\* the outcomes of the POST sendWebhook makes: a 2xx response, another
\* response, or fetch throws (connection error, 30 s timeout)
WebhookOutcomes == {"2xx", "5xx", "throw"}

\* logWebhookDelivery(webhookId, event, statusCode, error)
logWebhookDelivery(webhookId, event, outcome) ==
  [action |-> IF outcome = "throw" THEN "WEBHOOK_FAILED" ELSE "WEBHOOK_SENT",
   resourceId |-> webhookId, userId |-> None, reason |-> event,
   oldToken |-> <<"", 0>>, newToken |-> <<"", 0>>]

\* sendWebhook(config, payload) with the POST ending in `outcome`: what was
\* posted and what it returns
sendWebhook(config, payload, outcome) ==
  [webhookId |-> config.id, event |-> payload.event, outcome |-> outcome,
   success |-> outcome = "2xx"]

\* processWebhookQueue: rpop, getWebhookConfigs, sendWebhook to every match
ProcessWebhookQueue ==
  /\ redisUp
  /\ webhooksQueue # <<>>
  /\ LET payload == webhooksQueue[Len(webhooksQueue)]
         configs == getWebhookConfigs(webhookConfigs, payload.userId, payload.event)
     IN \E o \in [configs -> WebhookOutcomes] :
          /\ webhooksQueue' = SubSeq(webhooksQueue, 1, Len(webhooksQueue) - 1)
          /\ deliveries' = deliveries (+)
               SetToBag({sendWebhook(c, payload, o[c]) : c \in configs})
          /\ auditLog' = auditLog (+)
               SetToBag({logWebhookDelivery(c.id, payload.event, o[c]) : c \in configs})
  /\ UNCHANGED <<now, dbVars, redisUp, ratelimit, latency, focus, upstreamCalls, req,
                 arrivals, minted, retired, rot, notifications, sigVars, susVars,
                 webhookConfigs,
                 workerVars, apiVars, cryptoVars>>

(***************************************************************************)
(* SpecHooks: rotation and the webhook delivery loop.  Webhooks are        *)
(* registered, tokens rotated and the queue drained in every order.        *)
(***************************************************************************)
InitHooks ==
  /\ InitCommon
  /\ focus = "hooks"
  /\ now = StartTime
  /\ sharedKeys = [id \in SharedKeyIds |-> BaseSharedKey]
  /\ apiKeys = BaseApiKeys
  /\ redisUp = TRUE
  /\ req = [r \in {1} |-> IdleReq]

NextHooks ==
  \/ \E u \in Users : \E e \in WebhookEvents : RegisterWebhook(u, {e})
  \/ \E id \in SharedKeyIds : NotifyTokenExpiring(id)
  \/ ProcessWebhookQueue
  \/ Rotations

SpecHooks == InitHooks /\ [][NextHooks]_vars

(***************************************************************************)
(* The worker's expiry sweep.                                              *)
(***************************************************************************)
\* a sweep that also takes the tokens expiring at this very moment
SweepMatchesInclusive(row, t) ==
  row.expiresAt # NoDate /\ row.expiresAt <= t /\ row.isActive

\* where: { expiresAt: { lt: new Date() }, isActive: true }
SweepMatches(row, t) ==
  row.expiresAt # NoDate /\ row.expiresAt < t /\ row.isActive

\* cleanupExpiredTokens: one updateMany statement, then the count is logged
cleanupExpiredTokens ==
  /\ Len(sweepLog) < MaxSweeps
  /\ LET hit == {id \in DOMAIN sharedKeys : SweepMatches(sharedKeys[id], now)}
     IN /\ sharedKeys' = [id \in DOMAIN sharedKeys |->
                            IF id \in hit THEN [sharedKeys[id] EXCEPT !.isActive = FALSE]
                            ELSE sharedKeys[id]]
        /\ sweepLog' = Append(sweepLog, [at |-> now, count |-> Cardinality(hit)])
  /\ UNCHANGED <<now, apiKeys, usageLogs, pendingUsage, redisUp, ratelimit, latency, focus,
                 upstreamCalls, req, arrivals, rotVars, sigVars, susVars, hookVars, apiVars, cryptoVars>>

(***************************************************************************)
(* SpecSweep: the expiry sweep between proxy requests, on a token with     *)
(* every expiry, while the clock runs.                                     *)
(***************************************************************************)
SweepRows ==
  {[BaseSharedKey EXCEPT !.isActive = a, !.expiresAt = e] :
     a \in BOOLEAN, e \in {NoDate, 30, RATE_WINDOW_SECONDS, 3600}}

InitSweep ==
  /\ InitCommon
  /\ focus = "sweep"
  /\ now = 0
  /\ sharedKeys \in [SharedKeyIds -> SweepRows]
  /\ apiKeys = BaseApiKeys
  /\ redisUp = TRUE
  /\ req = [r \in {1} |-> IdleReq]

NextSweep ==
  \/ Requests
  \/ \E r \in DOMAIN req : Release(r)
  \/ Tick
  \/ cleanupExpiredTokens

SpecSweep == InitSweep /\ [][NextSweep]_vars

(***************************************************************************)
(* SpecTimeout: silent upstreams.  Requests against upstreams that answer, *)
(* fail, or send no response headers for any length of time, while the     *)
(* clock advances.                                                         *)
(***************************************************************************)
InitTimeout ==
  /\ InitCommon
  /\ focus = "timeout"
  /\ now = 0
  /\ sharedKeys = [id \in SharedKeyIds |-> BaseSharedKey]
  /\ apiKeys = BaseApiKeys
  /\ redisUp = TRUE
  /\ req = [r \in 1..NumClients |-> IdleReq]

NextTimeout ==
  \/ Requests
  \/ \E r \in DOMAIN req : Release(r)
  \/ \E r \in DOMAIN req : UpstreamWakes(r)
  \/ Tick

SpecTimeout == InitTimeout /\ [][NextTimeout]_vars

(***************************************************************************)
(* encrypt / decrypt: AES-256-GCM under the process-wide key.  A string is *)
(* a sequence of UTF-16 code units, a buffer a sequence of bytes.  The     *)
(* cipher is a keystream XORed onto the bytes; the authentication tag is   *)
(* an ideal MAC of the nonce and the ciphertext, one term per tag byte.    *)
(***************************************************************************)
IsHighSurrogate(u) == u >= 55296 /\ u <= 56319
IsLowSurrogate(u) == u >= 56320 /\ u <= 57343

\* Buffer.from(s, "utf8"), as cipher.update(plaintext, "utf8") reads the string
RECURSIVE Utf8Encode(_)
Utf8Encode(s) ==
  IF s = <<>> THEN <<>>
  ELSE LET u == Head(s)
       IN IF u < 128 THEN <<u>> \o Utf8Encode(Tail(s))
          ELSE IF u < 2048
            THEN <<192 + (u \div 64), 128 + (u % 64)>> \o Utf8Encode(Tail(s))
          ELSE IF IsHighSurrogate(u) /\ Len(s) >= 2 /\ IsLowSurrogate(s[2])
            THEN LET cp == 65536 + ((u - 55296) * 1024) + (s[2] - 56320)
                 IN <<240 + (cp \div 262144), 128 + ((cp \div 4096) % 64),
                      128 + ((cp \div 64) % 64), 128 + (cp % 64)>>
                    \o Utf8Encode(Tail(Tail(s)))
          ELSE IF IsHighSurrogate(u) \/ IsLowSurrogate(u)
            THEN <<239, 191, 189>> \o Utf8Encode(Tail(s))
          ELSE <<224 + (u \div 4096), 128 + ((u \div 64) % 64), 128 + (u % 64)>>
               \o Utf8Encode(Tail(s))

IsContinuation(b, i) == i <= Len(b) /\ b[i] >= 128 /\ b[i] <= 191

\* buffer.toString("utf8")
RECURSIVE Utf8Decode(_)
Utf8Decode(b) ==
  IF b = <<>> THEN <<>>
  ELSE LET b0 == Head(b)
       IN IF b0 < 128 THEN <<b0>> \o Utf8Decode(Tail(b))
          ELSE IF b0 >= 194 /\ b0 <= 223 /\ IsContinuation(b, 2)
            THEN <<((b0 - 192) * 64) + (b[2] - 128)>> \o Utf8Decode(SubSeq(b, 3, Len(b)))
          ELSE IF b0 >= 224 /\ b0 <= 239 /\ IsContinuation(b, 2) /\ IsContinuation(b, 3)
            THEN <<((b0 - 224) * 4096) + ((b[2] - 128) * 64) + (b[3] - 128)>>
                 \o Utf8Decode(SubSeq(b, 4, Len(b)))
          ELSE IF b0 >= 240 /\ b0 <= 244 /\ IsContinuation(b, 2) /\ IsContinuation(b, 3)
                  /\ IsContinuation(b, 4)
            THEN LET cp == ((b0 - 240) * 262144) + ((b[2] - 128) * 4096)
                           + ((b[3] - 128) * 64) + (b[4] - 128)
                 IN <<55296 + ((cp - 65536) \div 1024), 56320 + ((cp - 65536) % 1024)>>
                    \o Utf8Decode(SubSeq(b, 5, Len(b)))
          ELSE <<65533>> \o Utf8Decode(Tail(b))

\* a ^ b on bytes
RECURSIVE Xor(_, _)
Xor(a, b) ==
  IF a = 0 /\ b = 0 THEN 0
  ELSE ((a + b) % 2) + (2 * Xor(a \div 2, b \div 2))

\* byte i of the keystream the cipher derives from the key and the nonce
KeyStream(iv, i) == ((SumOver(iv, DOMAIN iv) * 31) + (i * 17) + 73) % 256

\* cipher.update / decipher.update: the keystream XORed onto the data
ApplyKeyStream(iv, data) == [i \in DOMAIN data |-> Xor(data[i], KeyStream(iv, i))]

\* an element of a buffer: a byte, or byte j of the tag of <<nonce, ciphertext>>
Byte(n) == <<"byte", n, <<>>>>
TagByte(j, iv, encrypted) == <<"gmac", j, <<iv, encrypted>>>>

Bytes(data) == [i \in DOMAIN data |-> Byte(data[i])]
Values(buffer) == [i \in DOMAIN buffer |-> buffer[i][2]]

\* cipher.getAuthTag()
getAuthTag(iv, encrypted) == [j \in 1..TAG_LENGTH |-> TagByte(j, iv, encrypted)]

\* buffer.toString("base64") and Buffer.from(text, "base64")
toBase64(buffer) == <<"base64", buffer>>
fromBase64(text) == text[2]

\* encrypt(plaintext), with the nonce crypto.randomBytes(IV_LENGTH) returned
encrypt(plaintext, iv) ==
  LET encrypted == ApplyKeyStream(iv, Utf8Encode(plaintext))
      tag == getAuthTag(iv, encrypted)
  IN toBase64(Bytes(iv) \o tag \o Bytes(encrypted))

\* decrypt without decipher.final()
decryptUnverified(encryptedData) ==
  LET combined == fromBase64(encryptedData)
      iv == Values(SubSeq(combined, 1, IV_LENGTH))
      encrypted == Values(SubSeq(combined, IV_LENGTH + TAG_LENGTH + 1, Len(combined)))
  IN [error |-> "none", plaintext |-> Utf8Decode(ApplyKeyStream(iv, encrypted))]

\* decrypt(encryptedData): the plaintext, or the error decipher.final() throws
decrypt(encryptedData) ==
  LET combined == fromBase64(encryptedData)
      iv == Values(SubSeq(combined, 1, IV_LENGTH))
      tag == SubSeq(combined, IV_LENGTH + 1, IV_LENGTH + TAG_LENGTH)
      encrypted == Values(SubSeq(combined, IV_LENGTH + TAG_LENGTH + 1, Len(combined)))
  IN IF tag = getAuthTag(iv, encrypted)
       THEN [error |-> "none", plaintext |-> Utf8Decode(ApplyKeyStream(iv, encrypted))]
       ELSE [error |-> "integrity", plaintext |-> <<>>]

\* the credentials of a run, as UTF-16 code units: empty, ASCII, e-acute, the
\* euro sign, U+1F600 as a surrogate pair, and strings with half a pair
Plaintexts ==
  {<<>>, <<97>>, <<233>>, <<97, 8364>>, <<55357, 56832>>, <<55357>>, <<56832, 97>>}

\* the nonces crypto.randomBytes returns in a run
Nonces == {[k \in 1..IV_LENGTH |-> 0], [k \in 1..IV_LENGTH |-> k]}

\* a credential is encrypted and stored
Encrypt(plaintext, iv) ==
  /\ vault.pc = "empty"
  /\ vault' = [pc |-> "stored", plaintext |-> plaintext,
               original |-> encrypt(plaintext, iv), stored |-> encrypt(plaintext, iv),
               tampers |-> 0, out |-> NoOut]
  /\ UNCHANGED <<now, dbVars, redisUp, ratelimit, latency, focus, upstreamCalls, req,
                 arrivals, rotVars, sigVars, susVars, hookVars, workerVars, apiVars>>

\* the values a byte of the stored blob is overwritten with: the byte at the
\* same offset of the blobs of the same credential under the other nonces
Overwrites(i) ==
  {fromBase64(encrypt(vault.plaintext, iv))[i] : iv \in Nonces}

\* byte i of the stored blob is overwritten outside the program
Tamper(i, e) ==
  /\ vault.pc = "stored"
  /\ vault.tampers < MaxTampers
  /\ fromBase64(vault.stored)[i] # e
  /\ vault' = [vault EXCEPT !.stored = toBase64([fromBase64(vault.stored) EXCEPT ![i] = e]),
                            !.tampers = @ + 1]
  /\ UNCHANGED <<now, dbVars, redisUp, ratelimit, latency, focus, upstreamCalls, req,
                 arrivals, rotVars, sigVars, susVars, hookVars, workerVars, apiVars>>

\* the stored blob is decrypted
Decrypt ==
  /\ vault.pc = "stored"
  /\ vault' = [vault EXCEPT !.pc = "read", !.out = decrypt(vault.stored)]
  /\ UNCHANGED <<now, dbVars, redisUp, ratelimit, latency, focus, upstreamCalls, req,
                 arrivals, rotVars, sigVars, susVars, hookVars, workerVars, apiVars>>

(***************************************************************************)
(* SpecCrypto: every credential is encrypted under every nonce, bytes of   *)
(* the stored blob are overwritten, and the blob is decrypted.             *)
(***************************************************************************)
InitCrypto ==
  /\ InitCommon
  /\ focus = "crypto"
  /\ now = StartTime
  /\ sharedKeys = [id \in SharedKeyIds |-> BaseSharedKey]
  /\ apiKeys = BaseApiKeys
  /\ redisUp = TRUE
  /\ req = [r \in {1} |-> IdleReq]

NextCrypto ==
  \/ \E p \in Plaintexts : \E iv \in Nonces : Encrypt(p, iv)
  \/ \E i \in 1..Len(fromBase64(vault.stored)) : \E e \in Overwrites(i) : Tamper(i, e)
  \/ Decrypt

SpecCrypto == InitCrypto /\ [][NextCrypto]_vars

(***************************************************************************)
(* Dashboard API: POST /api/shared, one step per await point.              *)
(***************************************************************************)
\* the number of dashboard API calls made so far
ApiCalls == SumOver([c \in DOMAIN api |-> api[c].gen], DOMAIN api)

\* the locals of a call of handler `op` by `user` that starts in slot c
ApiCall(c, op, user) ==
  [IdleApi EXCEPT !.gen = api[c].gen + 1, !.op = op, !.user = user]

\* the id the database gives the n-th shared key
SharedKeyId(n) == <<"sk1", "sk2", "sk3", "sk4">>[n]

\* the row db.sharedKey.create writes
CreatedRow(user, apiKeyId, accessToken) ==
  [BaseSharedKey EXCEPT !.apiKeyId = apiKeyId, !.ownerId = user,
                        !.accessToken = accessToken, !.tokenHash = hash(accessToken)]

\* a handler returns `status`
ApiRespond(c, status) == api' = [api EXCEPT ![c].pc = "done", ![c].status = status]

\* POST /api/shared up to db.apiKey.findFirst: the key must belong to the
\* session user; then the access token is generated
CreateBegin(c, user, apiKeyId) ==
  /\ api[c].pc \in {"idle", "done"}
  /\ ApiCalls < MaxApiCalls
  /\ IF apiKeys[apiKeyId].userId = user
       THEN /\ api' = [api EXCEPT ![c] = [ApiCall(c, "create", user) EXCEPT
                                            !.pc = "create", !.apiKeyId = apiKeyId,
                                            !.accessToken = generateAccessToken(minted + 1)]]
            /\ minted' = minted + 1
       ELSE /\ api' = [api EXCEPT ![c] = [ApiCall(c, "create", user) EXCEPT
                                            !.pc = "done", !.apiKeyId = apiKeyId,
                                            !.status = 404]]
            /\ UNCHANGED minted
  /\ UNCHANGED <<now, dbVars, redisUp, ratelimit, latency, focus, upstreamCalls, req,
                 arrivals, retired, rot, auditLog, notifications, sigVars, susVars,
                 hookVars, workerVars, twoFactor, revealed, cryptoVars>>

\* db.sharedKey.create commits, or throws and the catch answers 500
CreateRow(c) ==
  /\ api[c].pc = "create"
  /\ \E ok \in BOOLEAN :
       IF ok
         THEN LET id == SharedKeyId(Cardinality(DOMAIN sharedKeys) + 1)
              IN /\ sharedKeys' = sharedKeys @@
                      (id :> CreatedRow(api[c].user, api[c].apiKeyId, api[c].accessToken))
                 /\ api' = [api EXCEPT ![c].pc = "audit", ![c].sharedKeyId = id]
         ELSE /\ ApiRespond(c, 500)
              /\ UNCHANGED sharedKeys
  /\ UNCHANGED <<now, apiKeys, usageLogs, pendingUsage, redisUp, ratelimit, latency, focus,
                 upstreamCalls, req, arrivals, rotVars, sigVars, susVars, hookVars,
                 workerVars, twoFactor, revealed, cryptoVars>>

\* db.auditLog.create commits and the handler answers 201, or it throws and
\* the catch answers 500
CreateAudit(c) ==
  /\ api[c].pc = "audit"
  /\ api[c].op = "create"
  /\ \E ok \in BOOLEAN :
       IF ok
         THEN /\ auditLog' = auditLog (+)
                   SetToBag({[action |-> "SHARED_KEY_CREATED",
                              resourceId |-> api[c].sharedKeyId, userId |-> api[c].user,
                              reason |-> None, oldToken |-> <<"", 0>>,
                              newToken |-> <<"", 0>>]})
              /\ ApiRespond(c, 201)
         ELSE /\ ApiRespond(c, 500)
              /\ UNCHANGED auditLog
  /\ UNCHANGED <<now, dbVars, redisUp, ratelimit, latency, focus, upstreamCalls, req,
                 arrivals, minted, retired, rot, notifications, sigVars, susVars,
                 hookVars, workerVars, twoFactor, revealed, cryptoVars>>

(***************************************************************************)
(* Two-factor authentication.  A code is its length and its characters.    *)
(***************************************************************************)
\* generateTOTP(secret, timeStep): TOTP_DIGITS digits that depend on both
generateTOTP(secret, timeStep) ==
  [len |-> TOTP_DIGITS, value |-> <<"totp", secret, timeStep>>]

\* verifyTOTP(secret, code) at time t: "ok", "no", or "throws" when
\* crypto.timingSafeEqual is given buffers of different lengths
verifyTOTP(secret, code, t) ==
  IF code.len # TOTP_DIGITS THEN "throws"
  ELSE IF \E i \in (0 - TOTP_WINDOW)..TOTP_WINDOW :
            code = generateTOTP(secret, (t \div TOTP_STEP) + i)
         THEN "ok" ELSE "no"

\* code.toUpperCase().replace(/[^A-Z0-9]/g, "")
NormalizeCode(value) ==
  CASE value = <<"text", "ab12-cd34">> -> <<"text", "AB12CD34">>
    [] value = <<"text", "AB12-CD34">> -> <<"text", "AB12CD34">>
    [] OTHER -> value

\* the backup codes a client stores when enabling 2FA
BackupCodes ==
  {[len |-> TOTP_DIGITS, value |-> <<"text", "QRS789">>],
   [len |-> TOTP_DIGITS + 2, value |-> <<"text", "AB12CD34">>]}

TwoFactorSecret == "JBSWY3DP"

\* the codes a client may submit at time t
SubmittedCodes(t) ==
  {generateTOTP(TwoFactorSecret, (t \div TOTP_STEP) + i) : i \in {0 - 2, 0, 1}}
    \cup BackupCodes

\* the audit row of a 2FA event of `user` about sensitive action `action`
TwoFactorAudit(name, user, action) ==
  [action |-> name, resourceId |-> user, userId |-> user, reason |-> action,
   oldToken |-> <<"", 0>>, newToken |-> <<"", 0>>]

\* the successful calls of the enable endpoint so far
TwoFactorEnables ==
  SumOver([e \in BagToSet(auditLog) |->
             IF e.action = "2FA_ENABLED" THEN CopiesIn(e, auditLog) ELSE 0],
          BagToSet(auditLog))

\* a second secret and a second list of backup codes a client may send
OtherSecret == "KRSXG5CT"

OtherBackupCodes == {[len |-> TOTP_DIGITS + 2, value |-> <<"text", "0F9E8D7C">>]}

\* POST /api/2fa/enable with body { secret, code, backupCodes }:
\* enableTwoFactor, then storeBackupCodes
EnableTwoFactor(c, user, secret, code, codes) ==
  /\ api[c].pc \in {"idle", "done"}
  /\ TwoFactorEnables < MaxEnables
  /\ redisUp
  /\ LET v == verifyTOTP(secret, code, now)
     IN IF v = "ok"
          THEN /\ twoFactor' = [twoFactor EXCEPT ![user] =
                                  [secret |-> secret,
                                   backup |-> {hash(b.value) : b \in codes}]]
               /\ auditLog' = auditLog (+) SetToBag({TwoFactorAudit("2FA_ENABLED", user, None)})
               /\ api' = [api EXCEPT ![c] = [ApiCall(c, "enable_2fa", user) EXCEPT
                                              !.gen = api[c].gen, !.pc = "done",
                                              !.status = 200]]
          ELSE /\ api' = [api EXCEPT ![c] = [ApiCall(c, "enable_2fa", user) EXCEPT
                                              !.gen = api[c].gen, !.pc = "done",
                                              !.status = 400]]
               /\ UNCHANGED <<twoFactor, auditLog>>
  /\ UNCHANGED <<now, dbVars, redisUp, ratelimit, latency, focus, upstreamCalls, req,
                 arrivals, minted, retired, rot, notifications, sigVars, susVars,
                 hookVars, workerVars, revealed, cryptoVars>>

\* requireTwoFactorVerification(userId, code, action) at time t on the 2FA
\* state tf: the result, the audit rows written, and the 2FA state left
requireTwoFactorVerification(tf, user, code, action, t) ==
  IF tf[user].secret = None
    THEN [valid |-> "valid", audit |-> {}, tf |-> tf]
  ELSE IF verifyTOTP(tf[user].secret, code, t) = "throws"
    THEN [valid |-> "throws", audit |-> {}, tf |-> tf]
  ELSE IF verifyTOTP(tf[user].secret, code, t) = "ok"
    THEN [valid |-> "valid", audit |-> {TwoFactorAudit("2FA_VERIFIED", user, action)},
          tf |-> tf]
  ELSE IF hash(NormalizeCode(code.value)) \in tf[user].backup
    THEN [valid |-> "valid",
          audit |-> {TwoFactorAudit("2FA_VERIFIED_BACKUP", user, action)},
          tf |-> [tf EXCEPT ![user].backup = @ \ {hash(NormalizeCode(code.value))}]]
  ELSE [valid |-> "invalid", audit |-> {}, tf |-> tf]

\* the actions a client asks a verification for
SENSITIVE_ACTIONS == {"reveal_api_key", "create_shared_token", "delete_api_key"}

\* POST /api/2fa/verify
VerifyTwoFactor(c, user, code, action) ==
  /\ api[c].pc \in {"idle", "done"}
  /\ ApiCalls < MaxApiCalls
  /\ redisUp
  /\ LET res == requireTwoFactorVerification(twoFactor, user, code, action, now)
     IN /\ twoFactor' = res.tf
        /\ auditLog' = auditLog (+) SetToBag(res.audit)
        /\ api' = [api EXCEPT ![c] = [ApiCall(c, "verify_2fa", user) EXCEPT
                                       !.pc = "done",
                                       !.status = CASE res.valid = "valid" -> 200
                                                    [] res.valid = "invalid" -> 400
                                                    [] OTHER -> 500]]
  /\ UNCHANGED <<now, dbVars, redisUp, ratelimit, latency, focus, upstreamCalls, req,
                 arrivals, minted, retired, rot, notifications, sigVars, susVars,
                 hookVars, workerVars, revealed, cryptoVars>>

\* POST /api/2fa/disable: disableTwoFactor
DisableTwoFactor(c, user, code) ==
  /\ api[c].pc \in {"idle", "done"}
  /\ ApiCalls < MaxApiCalls
  /\ redisUp
  /\ LET secret == twoFactor[user].secret
         v == IF secret = None THEN "no" ELSE verifyTOTP(secret, code, now)
         call == [ApiCall(c, "disable_2fa", user) EXCEPT !.pc = "done", !.code = code]
     IN IF v = "ok"
          THEN /\ twoFactor' = [twoFactor EXCEPT ![user] = NoTwoFactor]
               /\ auditLog' = auditLog (+)
                    SetToBag({TwoFactorAudit("2FA_DISABLED", user, None)})
               /\ api' = [api EXCEPT ![c] = [call EXCEPT !.status = 200]]
          ELSE /\ api' = [api EXCEPT ![c] =
                            [call EXCEPT !.status = IF v = "throws" THEN 500 ELSE 400]]
               /\ UNCHANGED <<twoFactor, auditLog>>
  /\ UNCHANGED <<now, dbVars, redisUp, ratelimit, latency, focus, upstreamCalls, req,
                 arrivals, minted, retired, rot, notifications, sigVars, susVars,
                 hookVars, workerVars, revealed, cryptoVars>>

\* verifyBackupCode up to redis.smembers and codes.includes(codeHash)
VerifyBackupRead(c, user, code) ==
  /\ api[c].pc \in {"idle", "done"}
  /\ ApiCalls < MaxApiCalls
  /\ redisUp
  /\ LET codes == twoFactor[user].backup
         call == [ApiCall(c, "verify_backup", user) EXCEPT !.code = code, !.codes = codes]
     IN api' = [api EXCEPT ![c] =
                  IF hash(NormalizeCode(code.value)) \in codes
                    THEN [call EXCEPT !.pc = "srem"]
                    ELSE [call EXCEPT !.pc = "done", !.returned = "false"]]
  /\ UNCHANGED <<now, dbVars, redisUp, ratelimit, latency, focus, upstreamCalls, req,
                 arrivals, rotVars, sigVars, susVars, hookVars, workerVars, twoFactor,
                 revealed, cryptoVars>>

\* verifyBackupCode from redis.srem on: the code is removed, true is returned
VerifyBackupRemove(c) ==
  /\ api[c].pc = "srem"
  /\ redisUp
  /\ twoFactor' = [twoFactor EXCEPT ![api[c].user].backup =
                     @ \ {hash(NormalizeCode(api[c].code.value))}]
  /\ api' = [api EXCEPT ![c].pc = "done", ![c].returned = "true"]
  /\ UNCHANGED <<now, dbVars, redisUp, ratelimit, latency, focus, upstreamCalls, req,
                 arrivals, rotVars, sigVars, susVars, hookVars, workerVars,
                 revealed, cryptoVars>>

(***************************************************************************)
(* Dashboard API: POST /api/keys/[id] (reveal).                            *)
(***************************************************************************)
\* up to db.apiKey.findFirst and decrypt
RevealBegin(c, user, apiKeyId) ==
  /\ api[c].pc \in {"idle", "done"}
  /\ ApiCalls < MaxApiCalls
  /\ api' = [api EXCEPT ![c] =
               IF apiKeys[apiKeyId].userId = user
                 THEN [ApiCall(c, "reveal", user) EXCEPT !.pc = "audit",
                                                         !.apiKeyId = apiKeyId]
                 ELSE [ApiCall(c, "reveal", user) EXCEPT !.pc = "done",
                                                         !.apiKeyId = apiKeyId,
                                                         !.status = 404]]
  /\ UNCHANGED <<now, dbVars, redisUp, ratelimit, latency, focus, upstreamCalls, req,
                 arrivals, rotVars, sigVars, susVars, hookVars, workerVars, twoFactor,
                 revealed, cryptoVars>>

\* db.auditLog.create, then the plaintext is returned; or the catch answers 500
RevealAudit(c) ==
  /\ api[c].pc = "audit"
  /\ api[c].op = "reveal"
  /\ \E ok \in BOOLEAN :
       IF ok
         THEN /\ auditLog' = auditLog (+)
                   SetToBag({[action |-> "API_KEY_REVEALED", resourceId |-> api[c].apiKeyId,
                              userId |-> api[c].user, reason |-> None,
                              oldToken |-> <<"", 0>>, newToken |-> <<"", 0>>]})
              /\ revealed' = revealed (+) SetToBag({<<api[c].user, api[c].apiKeyId>>})
              /\ ApiRespond(c, 200)
         ELSE /\ ApiRespond(c, 500)
              /\ UNCHANGED <<auditLog, revealed>>
  /\ UNCHANGED <<now, dbVars, redisUp, ratelimit, latency, focus, upstreamCalls, req,
                 arrivals, minted, retired, rot, notifications, sigVars, susVars,
                 hookVars, workerVars, twoFactor, cryptoVars>>

(***************************************************************************)
(* SpecApi: the dashboard API.  Users enable 2FA, verify codes, create     *)
(* shared tokens and reveal keys, two calls at a time; a database write    *)
(* may fail.                                                               *)
(***************************************************************************)
InitApi ==
  /\ InitCommon
  /\ focus = "api"
  /\ now = StartTime
  /\ sharedKeys = <<>>
  /\ apiKeys = BaseApiKeys
  /\ redisUp = TRUE
  /\ req = [r \in {1} |-> IdleReq]

NextApi ==
  \/ \E c \in DOMAIN api : \E u \in Users : \E code \in SubmittedCodes(now) :
       EnableTwoFactor(c, u, TwoFactorSecret, code, BackupCodes)
  \/ \E c \in DOMAIN api : \E u \in Users : \E code \in SubmittedCodes(now) :
       \E a \in SENSITIVE_ACTIONS : VerifyTwoFactor(c, u, code, a)
  \/ \E c \in DOMAIN api : \E u \in Users : \E k \in SeqRange(ApiKeyIds) : CreateBegin(c, u, k)
  \/ \E c \in DOMAIN api : CreateRow(c)
  \/ \E c \in DOMAIN api : CreateAudit(c)
  \/ \E c \in DOMAIN api : \E u \in Users : \E k \in SeqRange(ApiKeyIds) : RevealBegin(c, u, k)
  \/ \E c \in DOMAIN api : RevealAudit(c)

SpecApi == InitApi /\ [][NextApi]_vars

(***************************************************************************)
(* Order of the policy checks.                                             *)
(***************************************************************************)
\* the policy checks in their documented order
CheckOrder == <<"format", "lookup", "expiry", "usage", "ip", "scope", "signature">>

\* request r, evaluated against the stored rows, violates check c; a check on
\* the row is violated only by a request whose token resolves to a row
FailsCheck(r, c) ==
  LET auth == req[r].auth
      wellFormed == auth[1] = "Bearer" /\ auth[2][1] = "feen"
      id == IF wellFormed THEN FindSharedKey(sharedKeys, hash(auth[2])) ELSE None
  IN CASE c = "format" -> ~wellFormed
       [] c = "lookup" -> wellFormed /\ id = None
       [] id = None -> FALSE
       [] c = "expiry" -> sharedKeys[id].expiresAt # NoDate /\ sharedKeys[id].expiresAt < now
       [] c = "usage" ->
            sharedKeys[id].maxUsage # 0 /\ sharedKeys[id].usageCount >= sharedKeys[id].maxUsage
       [] c = "ip" ->
            sharedKeys[id].allowedIPs # {} /\ ClientIP(req[r].xff) \notin sharedKeys[id].allowedIPs
       [] c = "scope" -> ~hasRequiredScope(sharedKeys[id].scopes, req[r].endpoint)
       [] OTHER ->
            sharedKeys[id].requireSignature
            /\ ~verifySignedRequest(req[r].sig, "POST", req[r].endpoint, "{}", id,
                                    sharedKeys[id].signingSecret, now, {}).valid

FailedChecks(r) == {i \in 1..Len(CheckOrder) : FailsCheck(r, CheckOrder[i])}

\* the failure the client is told for each check
CheckReasons(c) ==
  CASE c = "format" -> {"NO_BEARER", "BAD_FORMAT"}
    [] c = "lookup" -> {"NOT_FOUND"}
    [] c = "expiry" -> {"EXPIRED"}
    [] c = "usage" -> {"USAGE_LIMIT"}
    [] c = "ip" -> {"IP_DENIED"}
    [] c = "scope" -> {"SCOPE_DENIED"}
    [] OTHER -> {"SIGNATURE_DENIED"}

\* C11: a request that violates several policy checks at once is answered with
\* the failure of the earliest of them in the order format, lookup, expiry,
\* usage cap, IP allow-list, scope, signature.
C11_EarliestFailureReported ==
  \A r \in DOMAIN req :
    (req[r].pc = "done" /\ Cardinality(FailedChecks(r)) >= 2) =>
      LET first == CHOOSE i \in FailedChecks(r) : \A j \in FailedChecks(r) : i <= j
      IN req[r].reason \in CheckReasons(CheckOrder[first])

(***************************************************************************)
(* IP allow-list.                                                          *)
(***************************************************************************)
\* a dotted quad as a 32-bit number
IPv4(a, b, c, d) == ((a * 256 + b) * 256 + c) * 256 + d

NotAnAddress == [base |-> 0, bits |-> 0, ok |-> FALSE]

\* an allow-list entry or client address of the model parsed as a network:
\* a literal address is a /32, "a.b.c.d/n" is the n-bit prefix, others are none
ParseNetwork(entry) ==
  CASE entry = "10.0.0.7" -> [base |-> IPv4(10, 0, 0, 7), bits |-> 32, ok |-> TRUE]
    [] entry = "10.0.1.5" -> [base |-> IPv4(10, 0, 1, 5), bits |-> 32, ok |-> TRUE]
    [] entry = "10.0.0.0/24" -> [base |-> IPv4(10, 0, 0, 0), bits |-> 24, ok |-> TRUE]
    [] OTHER -> NotAnAddress

\* address ip lies inside network net: their first net.bits bits agree
InNetwork(ip, net) ==
  /\ ip.ok /\ net.ok /\ ip.bits = 32
  /\ ip.base \div (2 ^ (32 - net.bits)) = net.base \div (2 ^ (32 - net.bits))

\* the client address passes the list: the list is empty, or the address equals
\* a literal entry or lies inside a CIDR entry
IpAdmitted(allowedIPs, clientIP) ==
  \/ allowedIPs = {}
  \/ clientIP \in allowedIPs
  \/ \E e \in allowedIPs : InNetwork(ParseNetwork(clientIP), ParseNetwork(e))

\* request r got as far as the IP check
ReachedIpCheck(r) ==
  /\ req[r].pc \notin {"idle", "lookup"}
  /\ req[r].sk # None
  /\ req[r].reason \notin {"EXPIRED", "USAGE_LIMIT"}

\* C12: with a non-empty allow-list a request passes the IP check iff its client
\* address equals a literal entry or lies inside a CIDR entry; an undetermined
\* address counts as "unknown"; an empty list admits every address.  A request
\* that fails the check is answered 403.
C12_IpAllowListMatchesCidr ==
  \A r \in DOMAIN req :
    ReachedIpCheck(r) =>
      /\ (req[r].reason # "IP_DENIED")
           <=> IpAdmitted(sharedKeys[req[r].sk].allowedIPs, ClientIP(req[r].xff))
      /\ req[r].reason = "IP_DENIED" => req[r].status = 403

(***************************************************************************)
(* Usage cap.                                                              *)
(***************************************************************************)
\* the policy checks of request r return: on a token that resolves and is not
\* expired the answer is the 429 of the usage cap iff maxUsage is set and the
\* stored usageCount has reached it
C13_Step ==
  \A r \in DOMAIN req :
    (req[r].pc = "lookup" /\ req'[r].pc # "lookup") =>
      /\ req'[r].reason = "USAGE_LIMIT" => req'[r].sk # None
      /\ (req'[r].sk # None /\ req'[r].reason # "EXPIRED") =>
           LET row == sharedKeys[req'[r].sk]
           IN (req'[r].reason = "USAGE_LIMIT" /\ req'[r].status = 429 /\ req'[r].pc = "done")
                <=> (row.maxUsage # 0 /\ row.usageCount >= row.maxUsage)

\* C13: a request on a token with maxUsage set is answered 429 for quota
\* whenever the stored usageCount is >= maxUsage when the check runs, and is not
\* rejected for quota when usageCount < maxUsage or maxUsage is unset.
C13_UsageCapEnforced == [][C13_Step]_vars

\* the second request on a token of maxUsage 1 is answered 429 after the first
\* one was forwarded and counted
C13_Witness ==
  \E r \in DOMAIN req :
    /\ req[r].pc = "done" /\ req[r].reason = "USAGE_LIMIT" /\ req[r].status = 429
    /\ req[r].gen = 2
    /\ sharedKeys[req[r].sk].usageCount = 1 /\ sharedKeys[req[r].sk].maxUsage = 1
    /\ usageLogs # EmptyBag

(***************************************************************************)
(* Suspicious-activity events of rejected requests.                        *)
(***************************************************************************)
\* the policy rejections that are to leave a suspicious-activity event
RecordedRejections == {"EXPIRED", "USAGE_LIMIT", "IP_DENIED"}

\* the event types with a stored event for token id
StoredEvents(id) == {t \in SuspTypes : suspicious[<<id, t>>].events # <<>>}

\* C14: a request rejected by a policy check other than a lookup miss has left a
\* suspicious-activity event for its token when it is answered; a request
\* rejected for its address has left an ip_blacklisted event.
C14_RejectionRecorded ==
  \A r \in DOMAIN req :
    (req[r].pc = "done" /\ req[r].reason \in RecordedRejections) =>
      /\ StoredEvents(req[r].sk) # {}
      /\ req[r].reason = "IP_DENIED" =>
           suspicious[<<req[r].sk, "ip_blacklisted">>].events # <<>>

(***************************************************************************)
(* recordSuspiciousActivity, one step per await point.                     *)
(***************************************************************************)
ROTATION_THRESHOLDS(type) ==
  CASE type = "rate_limit_exceeded" -> 10
    [] type = "burst_requests" -> 5
    [] type = "geographic_anomaly" -> 3
    [] type = "multiple_locations" -> 5
    [] type = "invalid_signature" -> 3
    [] type = "expired_timestamp" -> 5
    [] type = "replay_attack" -> 1
    [] type = "unusual_usage_pattern" -> 5
    [] type = "high_error_rate" -> 10
    [] type = "unusual_models" -> 3
    [] type = "ip_blacklisted" -> 1
    [] type = "unauthorized_scope" -> 3

\* a decision that rotates only above the threshold
RotationNeededAbove(violations, threshold) == violations > threshold

\* violations >= threshold
RotationNeeded(violations, threshold) == violations >= threshold

\* the number of recordSuspiciousActivity calls made so far
SusCalls == SumOver([c \in DOMAIN sus |-> sus[c].gen], DOMAIN sus)

\* redis.lpush(eventKey, event); throws when the fast store is down
SusPush(c, id, type) ==
  /\ sus[c].pc \in {"idle", "done", "failed"}
  /\ SusCalls < MaxEvents
  /\ IF redisUp
       THEN /\ suspicious' = [suspicious EXCEPT ![<<id, type>>].events = <<now>> \o @]
            /\ sus' = [sus EXCEPT ![c] = [IdleSus EXCEPT !.pc = "expire", !.tokenId = id,
                                          !.type = type, !.gen = sus[c].gen + 1]]
       ELSE /\ sus' = [sus EXCEPT ![c] = [IdleSus EXCEPT !.pc = "failed", !.tokenId = id,
                                          !.type = type, !.gen = sus[c].gen + 1]]
            /\ UNCHANGED suspicious
  /\ UNCHANGED <<now, dbVars, redisUp, ratelimit, latency, focus, upstreamCalls, req,
                 arrivals, rotVars, sigVars,
                 hookVars, workerVars, apiVars, cryptoVars>>

\* redis.expire(eventKey, VIOLATION_WINDOW): the TTL of the whole list restarts
SusExpire(c) ==
  /\ sus[c].pc = "expire"
  /\ LET key == <<sus[c].tokenId, sus[c].type>>
     IN suspicious' = [suspicious EXCEPT ![key].expireAt =
                         IF suspicious[key].events # <<>>
                           THEN now + VIOLATION_WINDOW ELSE NoDate]
  /\ sus' = [sus EXCEPT ![c].pc = "llen"]
  /\ UNCHANGED <<now, dbVars, redisUp, ratelimit, latency, focus, upstreamCalls, req,
                 arrivals, rotVars, sigVars,
                 hookVars, workerVars, apiVars, cryptoVars>>

\* violations = redis.llen(eventKey)
SusLlen(c) ==
  /\ sus[c].pc = "llen"
  /\ sus' = [sus EXCEPT ![c].pc = "audit",
                        ![c].counted = suspicious[<<sus[c].tokenId, sus[c].type>>].events,
                        ![c].at = now]
  /\ UNCHANGED <<now, dbVars, redisUp, ratelimit, latency, focus, upstreamCalls, req,
                 arrivals, rotVars, sigVars, suspicious,
                 hookVars, workerVars, apiVars, cryptoVars>>

\* db.auditLog.create, then the decision; rotateToken runs up to its first await
SusAudit(c) ==
  /\ sus[c].pc = "audit"
  /\ LET violations == Len(sus[c].counted)
         threshold == ROTATION_THRESHOLDS(sus[c].type)
         row == [action |-> "SUSPICIOUS_ACTIVITY", resourceId |-> sus[c].tokenId,
                 userId |-> sharedKeys[sus[c].tokenId].ownerId, reason |-> sus[c].type,
                 oldToken |-> <<"", violations>>, newToken |-> <<"", threshold>>]
     IN IF RotationNeeded(violations, threshold)
          THEN /\ rot[c].pc \in {"idle", "done", "failed"}
               /\ auditLog' = auditLog (+) SetToBag({row})
               /\ BeginRotation(c, sus[c].tokenId, sus[c].type)
               /\ sus' = [sus EXCEPT ![c].pc = "rotating", ![c].rotates = TRUE]
          ELSE /\ auditLog' = auditLog (+) SetToBag({row})
               /\ sus' = [sus EXCEPT ![c].pc = "done"]
               /\ UNCHANGED <<minted, rot>>
  /\ UNCHANGED <<now, dbVars, redisUp, ratelimit, latency, focus, upstreamCalls, req,
                 arrivals, retired, notifications, sigVars, suspicious,
                 hookVars, workerVars, apiVars, cryptoVars>>

\* rotateToken has returned or thrown: recordSuspiciousActivity does the same
SusReturn(c) ==
  /\ sus[c].pc = "rotating"
  /\ rot[c].pc \in {"done", "failed"}
  /\ sus' = [sus EXCEPT ![c].pc = rot[c].pc]
  /\ UNCHANGED <<now, dbVars, redisUp, ratelimit, latency, focus, upstreamCalls, req,
                 arrivals, rotVars, sigVars, suspicious,
                 hookVars, workerVars, apiVars, cryptoVars>>

\* Redis drops the lists whose TTL has run out at time t
ExpireLists(lists, t) ==
  [k \in DOMAIN lists |->
     IF lists[k].expireAt # NoDate /\ lists[k].expireAt <= t THEN EmptyList ELSE lists[k]]

\* the clock step is forty minutes: it passes between calls, never inside one
SuspTick ==
  /\ now + SuspTickSeconds <= StartTime + MaxSuspTicks * SuspTickSeconds
  /\ \A c \in DOMAIN sus : sus[c].pc \in {"idle", "done", "failed"}
  /\ now' = now + SuspTickSeconds
  /\ suspicious' = ExpireLists(suspicious, now + SuspTickSeconds)
  /\ UNCHANGED <<dbVars, redisUp, ratelimit, latency, focus, upstreamCalls, req, arrivals,
                 rotVars, sigVars, sus,
                 hookVars, workerVars, apiVars, cryptoVars>>

(***************************************************************************)
(* SpecSusp: suspicious activity.  recordSuspiciousActivity calls of every *)
(* type, up to two at once, while the clock runs past the one-hour window. *)
(***************************************************************************)
InitSusp ==
  /\ InitCommon
  /\ focus = "suspicious"
  /\ now = StartTime
  /\ sharedKeys = [id \in SharedKeyIds |-> BaseSharedKey]
  /\ apiKeys = BaseApiKeys
  /\ redisUp \in BOOLEAN
  /\ req = [r \in {1} |-> IdleReq]

NextSusp ==
  \/ \E c \in DOMAIN sus : \E id \in SharedKeyIds : \E type \in SuspTypes : SusPush(c, id, type)
  \/ \E c \in DOMAIN sus : SusExpire(c)
  \/ \E c \in DOMAIN sus : SusLlen(c)
  \/ \E c \in DOMAIN sus : SusAudit(c)
  \/ \E c \in DOMAIN sus : SusReturn(c)
  \/ RotationSteps
  \/ SuspTick

SpecSusp == InitSusp /\ [][NextSusp]_vars

(***************************************************************************)
(* SpecClear: the violation counts at a rotation.  As SpecSusp, with the   *)
(* fast store also holding lists of a second token.                        *)
(***************************************************************************)
OtherToken == "sk2"

\* a list another token's rejected requests have left
OtherLists ==
  {EmptyList, [events |-> <<StartTime>>, expireAt |-> StartTime + VIOLATION_WINDOW]}

InitClear ==
  /\ InitBase
  /\ focus = "clear"
  /\ now = StartTime
  /\ sharedKeys = [id \in SharedKeyIds |-> BaseSharedKey]
  /\ apiKeys = BaseApiKeys
  /\ redisUp \in BOOLEAN
  /\ req = [r \in {1} |-> IdleReq]
  /\ \E other \in [SuspTypes -> OtherLists] :
       suspicious = [k \in (SharedKeyIds \cup {OtherToken}) \X SuspTypes |->
                       IF k[1] = OtherToken THEN other[k[2]] ELSE EmptyList]

SpecClear == InitClear /\ [][NextSusp]_vars

\* C15: a recordSuspiciousActivity call starts a rotation exactly when the
\* length it read after appending its event is at least the threshold of
\* the event's type; that length is the length of the stored list, and every
\* rotation it started that ran to its end left a TOKEN_ROTATED audit entry
\* whose reason is the event's type.
C15_State ==
  \A c \in DOMAIN sus :
    /\ sus[c].pc \in {"rotating", "done"} =>
         (sus[c].rotates <=> Len(sus[c].counted) >= ROTATION_THRESHOLDS(sus[c].type))
    /\ (sus[c].pc = "done" /\ sus[c].rotates) =>
         \E row \in BagToSet(auditLog) :
           /\ row.action = "TOKEN_ROTATED"
           /\ row.resourceId = sus[c].tokenId
           /\ row.reason = sus[c].type
           /\ row.newToken = sharedKeys[sus[c].tokenId].accessToken

C15_Step ==
  \A c \in DOMAIN sus :
    (sus[c].pc = "llen" /\ sus'[c].pc = "audit") =>
      sus'[c].counted = suspicious[<<sus[c].tokenId, sus[c].type>>].events

C15_RotatesIffThresholdMet == []C15_State /\ [][C15_Step]_vars

\* the third invalid_signature event rotated the token, and a first
\* invalid_signature event before it did not
C15_Witness ==
  \E c \in DOMAIN sus :
    /\ sus[c].pc = "done"
    /\ sus[c].type = "invalid_signature"
    /\ sus[c].rotates
    /\ Len(sus[c].counted) = ROTATION_THRESHOLDS("invalid_signature")
    /\ sharedKeys[sus[c].tokenId].accessToken # InitialToken
    /\ \E row \in BagToSet(auditLog) :
         row.action = "TOKEN_ROTATED" /\ row.reason = "invalid_signature"
    /\ \E row \in BagToSet(auditLog) :
         /\ row.action = "SUSPICIOUS_ACTIVITY" /\ row.reason = "invalid_signature"
         /\ row.oldToken = <<"", 1>>

\* the entries of a call's count that were recorded within the hour before it
RecentEvents(c) ==
  {i \in DOMAIN sus[c].counted : sus[c].counted[i] >= sus[c].at - VIOLATION_WINDOW}

\* C16: the count a call compares with the threshold holds only events
\* recorded within the preceding hour, so a call rotates only when the events
\* of the last hour alone reach the threshold.
C16_OnlyLastHourCounted ==
  \A c \in DOMAIN sus :
    sus[c].pc \in {"audit", "rotating", "done"} =>
      /\ RecentEvents(c) = DOMAIN sus[c].counted
      /\ sus[c].rotates =>
           Cardinality(RecentEvents(c)) >= ROTATION_THRESHOLDS(sus[c].type)

\* C17: a checkRateLimit call whose INCR or EXPIRE finds the fast store
\* unreachable returns allowed = true and remaining = limit, and the request
\* goes on to routing instead of being answered 429.
C17_Step ==
  \A r \in DOMAIN req :
    (req[r].pc \in {"rate", "expire"} /\ ~redisUp /\ req'[r].pc # req[r].pc) =>
      /\ req'[r].rl.allowed
      /\ req'[r].rl.remaining = sharedKeys[req[r].sk].rateLimit
      /\ req'[r].pc = "route"
      /\ req'[r].status # 429

C17_State ==
  \A r \in DOMAIN req :
    (req[r].rl # NoRate /\ req[r].rl.failOpen) =>
      req[r].status # 429 /\ req[r].reason # "RATE_LIMITED"

C17_FailOpen == []C17_State /\ [][C17_Step]_vars

\* a request whose EXPIRE failed, and one whose INCR failed in a window whose
\* counter had reached the limit, were both forwarded upstream
C17_Witness ==
  /\ \E r \in DOMAIN req :
       /\ req[r].pc = "done" /\ req[r].rl.failOpen /\ req[r].current = 1
       /\ req[r].attempts # <<>> /\ req[r].status # 429
  /\ \E r \in DOMAIN req :
       /\ req[r].pc = "done" /\ req[r].rl.failOpen /\ req[r].current = 0
       /\ req[r].attempts # <<>> /\ req[r].status # 429
       /\ ratelimit[<<req[r].sk, WindowIndex(req[r].rlNow, RATE_WINDOW_SECONDS)>>].count
            >= sharedKeys[req[r].sk].rateLimit

\* the requests of r's token whose checkRateLimit call had returned, in the
\* window of the present clock, before r's call begins
EarlierInWindow(r) ==
  {q \in DOMAIN req \ {r} :
     /\ req[q].rl # NoRate
     /\ req[q].sk = req[r].sk
     /\ WindowIndex(req[q].rlNow, RATE_WINDOW_SECONDS) = WindowIndex(now, RATE_WINDOW_SECONDS)}

\* r's checkRateLimit call begins and returns in this step
RateReturns(r) == req[r].pc = "rate" /\ req'[r].rl # NoRate

\* C18 as stated: the remaining value returned to a request is at most the one
\* returned to every earlier request of the token in the same window, and a
\* request that follows one answered with remaining = 0 is answered 429.
C18_Step ==
  \A r \in DOMAIN req :
    RateReturns(r) =>
      \A q \in EarlierInWindow(r) :
        /\ req'[r].rl.remaining <= req[q].rl.remaining
        /\ req[q].rl.remaining = 0 => req'[r].status = 429

C18_RemainingNonIncreasing == [][C18_Step]_vars

\* C18, amended: the same, for a request whose checkRateLimit call reaches the
\* fast store.
C18_StepReachable ==
  \A r \in DOMAIN req :
    (RateReturns(r) /\ ~req'[r].rl.failOpen) =>
      \A q \in EarlierInWindow(r) :
        /\ req'[r].rl.remaining <= req[q].rl.remaining
        /\ req[q].rl.remaining = 0 => req'[r].status = 429

C18_RemainingNonIncreasingWhileReachable == [][C18_StepReachable]_vars

\* a request was answered with remaining = 0 and a later request of the same
\* window, served by the fast store, was answered 429
C18_Witness ==
  \E q, r \in DOMAIN req :
    /\ q # r
    /\ req[q].rl # NoRate /\ ~req[q].rl.failOpen
    /\ req[q].rl.allowed /\ req[q].rl.remaining = 0
    /\ req[r].rl # NoRate /\ ~req[r].rl.failOpen
    /\ req[r].current > req[q].current
    /\ WindowIndex(req[q].rlNow, RATE_WINDOW_SECONDS)
         = WindowIndex(req[r].rlNow, RATE_WINDOW_SECONDS)
    /\ req[r].status = 429 /\ req[r].reason = "RATE_LIMITED"

\* the requests recorded for shared key `id` (all of them within the day
\* that starts at the first clock value)
RecordedRequests(id) ==
  {u.request : u \in {v \in BagToSet(usageLogs) : v.sharedKeyId = id}}

\* C19: once more requests than its dailyLimit have been recorded for a
\* token within a day, the token is inactive.
C19_DailyCapDeactivates ==
  \A id \in SharedKeyIds :
    Cardinality(RecordedRequests(id)) > sharedKeys[id].dailyLimit =>
      ~sharedKeys[id].isActive

\* the keys findMany returns for the token of request r, in insertion order
AvailableFor(r) ==
  LET id == req[r].sk
  IN AvailableApiKeys(apiKeys, sharedKeys[id].ownerId,
                      apiKeys[sharedKeys[id].apiKeyId].teamId)

\* request r names no model, or a model none of whose preferred providers is
\* the provider of an available key
NoPreferredProvider(r) ==
  \/ req[r].model = NoModel
  \/ SeqFilterKeys(ProvidersOf(AvailableFor(r), apiKeys),
                   SeqRange(MODEL_PROVIDER_MAP(req[r].model))) = <<>>

\* C20: without a model, with a model unknown to the model table, or with a
\* model none of whose preferred providers is available, the candidate list
\* is the key the token references followed by the other available keys in
\* insertion order.
C20_DefaultOrder ==
  \A r \in DOMAIN req :
    (req[r].cands # <<>> /\ NoPreferredProvider(r)) =>
      LET ref == sharedKeys[req[r].sk].apiKeyId
          avail == AvailableFor(r)
      IN req[r].cands = <<ref>> \o SeqFilterKeys(avail, SeqRange(avail) \ {ref})

\* provider p is cached as strictly faster than provider q; a provider
\* without an entry counts as infinitely slow
StrictlyFaster(lat, p, q) == lat[p] # 0 /\ (lat[q] = 0 \/ lat[p] < lat[q])

\* the available providers that the model of request r prefers, in key order
PreferredAvailable(r) ==
  SeqFilterKeys(ProvidersOf(AvailableFor(r), apiKeys),
                SeqRange(MODEL_PROVIDER_MAP(req[r].model)))

\* C21: when a preferred provider of the requested model is available, the
\* first candidate is a key of a preferred provider that no other available
\* preferred provider is cached as strictly faster than, and that is strictly
\* faster than every such provider of an older key.
C21_Step ==
  \A r \in DOMAIN req :
    (req[r].pc = "route" /\ req'[r].pc = "fetch" /\ ~NoPreferredProvider(r)) =>
      LET pref == PreferredAvailable(r)
          first == apiKeys[req'[r].cands[1]].provider
      IN \E i \in DOMAIN pref :
           /\ pref[i] = first
           /\ \A j \in DOMAIN pref : ~StrictlyFaster(latency, pref[j], first)
           /\ \A j \in 1..(i - 1) : StrictlyFaster(latency, first, pref[j])

C22_NoCandidateIs503 ==
  \A r \in DOMAIN req :
    (req[r].pc = "done" /\ req[r].rl # NoRate /\ req[r].rl.allowed
       /\ AvailableFor(r) = <<>>) =>
      req[r].status = 503 /\ req[r].attempts = <<>>

\* the rotateToken calls on shared key `id` that have returned or thrown
FinishedRotations(id) ==
  {k \in DOMAIN rot : rot[k].pc \in {"done", "failed"} /\ rot[k].tokenId = id}

\* no rotateToken call is under way
RotationsQuiet == \A k \in DOMAIN rot : rot[k].pc \in {"idle", "done", "failed"}

\* C23: in every state the stored tokenHash is the hash of the stored
\* accessToken, and when every rotateToken call on a token has finished, the
\* stored accessToken is the one minted by exactly one of the finished calls.
C23_HashMatchesToken ==
  \A id \in SharedKeyIds :
    /\ sharedKeys[id].tokenHash = hash(sharedKeys[id].accessToken)
    /\ (RotationsQuiet /\ FinishedRotations(id) # {}) =>
         Cardinality({k \in FinishedRotations(id) :
                        rot[k].newAccessToken = sharedKeys[id].accessToken}) = 1

\* two rotateToken calls that both read the first token have both completed
C23_Witness ==
  \E j, k \in DOMAIN rot :
    /\ j # k
    /\ rot[j].pc = "done" /\ rot[k].pc = "done"
    /\ rot[j].tokenId = rot[k].tokenId
    /\ rot[j].oldToken = InitialToken /\ rot[k].oldToken = InitialToken
    /\ sharedKeys[rot[k].tokenId].accessToken = rot[k].newAccessToken
    /\ rot[j].newAccessToken \in retired

\* C24: the step that completes a rotation leaves a token.rotated payload
\* for the token's owner at the head of webhooks:queue, the list the webhook
\* delivery loop drains.
C24_Step ==
  \A k \in DOMAIN rot :
    (rot[k].pc = "notify" /\ rot'[k].pc = "done") =>
      /\ Len(webhooksQueue') = Len(webhooksQueue) + 1
      /\ webhooksQueue'[1] = [event |-> "token.rotated",
                              userId |-> sharedKeys[rot[k].tokenId].ownerId]

C24_RotationEnqueuesWebhook == [][C24_Step]_vars

\* the token of shared key `id` is active and past its expiry
ActiveAndExpired(id) ==
  sharedKeys[id].isActive /\ sharedKeys[id].expiresAt # NoDate
  /\ sharedKeys[id].expiresAt < now

\* C25: a run of the expiry sweep turns isActive off on exactly the tokens
\* that are active and past their expiry and changes no other field of any
\* token; right after it no token is both active and expired; the count it
\* logs is the number of tokens it deactivated.
C25_Step ==
  Len(sweepLog') > Len(sweepLog) =>
    /\ \A id \in SharedKeyIds :
         /\ ActiveAndExpired(id) => sharedKeys'[id] = [sharedKeys[id] EXCEPT !.isActive = FALSE]
         /\ ~ActiveAndExpired(id) => sharedKeys'[id] = sharedKeys[id]
    /\ sweepLog'[Len(sweepLog')].count
         = Cardinality({id \in SharedKeyIds : ActiveAndExpired(id)})

C25_State ==
  (sweepLog # <<>> /\ sweepLog[Len(sweepLog)].at = now) =>
    \A id \in SharedKeyIds : ~ActiveAndExpired(id)

C25_SweepDeactivatesExpired == []C25_State /\ [][C25_Step]_vars

\* a sweep deactivated a token that had answered a request before it
\* expired; a later request with the token is answered 401
C25_Witness ==
  /\ sweepLog # <<>>
  /\ sweepLog[Len(sweepLog)].count = 1
  /\ ~sharedKeys["sk1"].isActive
  /\ sharedKeys["sk1"].expiresAt = 30
  /\ \E u \in BagToSet(usageLogs) : u.statusCode = 200
  /\ \E r \in DOMAIN req : req[r].pc = "done" /\ req[r].status = 401


(***************************************************************************)
(* C26: token creation writes the shared-token row and its                 *)
(* SHARED_KEY_CREATED audit entry atomically: whenever no creation is      *)
(* between its two writes, a shared-token row exists iff its creation      *)
(* audit entry exists, a failed write included.                            *)
(***************************************************************************)
CreationAudited(id) ==
  \E row \in BagToSet(auditLog) :
    row.action = "SHARED_KEY_CREATED" /\ row.resourceId = id

CreationsQuiet ==
  \A c \in DOMAIN api : api[c].op = "create" => api[c].pc \in {"idle", "done"}

C26_RowIffAuditEntry ==
  CreationsQuiet =>
    \A id \in {SharedKeyId(n) : n \in 1..4} :
      id \in DOMAIN sharedKeys <=> CreationAudited(id)


(***************************************************************************)
(* C29: for a user with 2FA enabled, a sensitive action completes only     *)
(* after a successful requireTwoFactorVerification for that user and       *)
(* action: a key reveal or a token creation that answers 2xx is preceded   *)
(* by a 2FA_VERIFIED or 2FA_VERIFIED_BACKUP entry for it.  Stated for a    *)
(* client that makes its calls one after the other, so that 2FA was        *)
(* enabled before the sensitive call began.                                *)
(***************************************************************************)
\* the SENSITIVE_ACTIONS name of a dashboard handler
SensitiveActionOf(op) ==
  CASE op = "create" -> "create_shared_token"
    [] op = "reveal" -> "reveal_api_key"
    [] OTHER -> None

\* requireTwoFactorVerification has succeeded with a code for user and action
Verified(user, action) ==
  \E row \in BagToSet(auditLog) :
    /\ row.action \in {"2FA_VERIFIED", "2FA_VERIFIED_BACKUP"}
    /\ row.userId = user
    /\ row.reason = action

C29_Step ==
  \A c \in DOMAIN api :
    ( /\ api[c].pc # "done"
      /\ api'[c].pc = "done"
      /\ api'[c].op \in {"create", "reveal"}
      /\ api'[c].status \in {200, 201}
      /\ twoFactor[api'[c].user].secret # None
      /\ \A d \in DOMAIN api \ {c} : api[d] = IdleApi )
    => Verified(api'[c].user, SensitiveActionOf(api'[c].op))

C29_SensitiveActionNeedsVerification == [][C29_Step]_vars



(***************************************************************************)
(* C27: for a 2xx JSON response with a usage block, the usage record       *)
(* stores request_tokens = prompt_tokens (or input_tokens),                *)
(* response_tokens = completion_tokens (or output_tokens), and             *)
(* total_tokens = the block's total_tokens or, when that is absent and     *)
(* both components are present (the value 0 included), their sum.          *)
(***************************************************************************)
\* a if the block has it, else b
FirstPresent(a, b) == IF a # Undefined THEN a ELSE b

ExpectedRequestTokens(usage) == FirstPresent(usage.prompt_tokens, usage.input_tokens)

ExpectedResponseTokens(usage) == FirstPresent(usage.completion_tokens, usage.output_tokens)

ExpectedTotalTokens(usage) ==
  IF usage.total_tokens # Undefined THEN usage.total_tokens
  ELSE IF ExpectedRequestTokens(usage) # Undefined /\ ExpectedResponseTokens(usage) # Undefined
    THEN Num(ExpectedRequestTokens(usage)[2] + ExpectedResponseTokens(usage)[2])
  ELSE Undefined

C27_Step ==
  \A r \in DOMAIN req :
    ( /\ req[r].pc = "finish"
      /\ req'[r].pc = "done"
      /\ ResponseOk(req[r].resp)
      /\ req[r].body.kind = "json_usage"
      /\ usageLogs' # usageLogs )
    => \E u \in BagToSet(usageLogs') :
         /\ u.request = RequestId(r)
         /\ u.requestTokens = Stored(ExpectedRequestTokens(req[r].body.usage))
         /\ u.responseTokens = Stored(ExpectedResponseTokens(req[r].body.usage))
         /\ u.totalTokens = Stored(ExpectedTotalTokens(req[r].body.usage))

C27_UsageTokensStored == [][C27_Step]_vars



(***************************************************************************)
(* C28: an upstream that never sends response headers is abandoned after   *)
(* the 30-second timeout: no proxy request is still waiting for the        *)
(* response headers of an upstream it called more than 30 seconds ago.     *)
(***************************************************************************)
C28_UpstreamAbandonedAfterTimeout ==
  \A r \in DOMAIN req :
    req[r].pc = "waiting" => now - req[r].fetchAt <= PROXY_TIMEOUT_SECONDS



(***************************************************************************)
(* C30, as stated: for every plaintext p, decrypt(encrypt(p)) = p.         *)
(***************************************************************************)
C30_RoundTripEveryString ==
  (vault.pc = "read" /\ vault.stored = vault.original)
    => vault.out = [error |-> "none", plaintext |-> vault.plaintext]

(***************************************************************************)
(* C30: for every plaintext p that is a well-formed string (no unpaired    *)
(* surrogate), decrypt(encrypt(p)) = p; and decrypt applied to a blob that *)
(* differs from encrypt(p) in any byte (nonce, tag or ciphertext) fails    *)
(* with an integrity error instead of returning a plaintext.               *)
(***************************************************************************)
\* no unpaired surrogate
RECURSIVE WellFormed(_)
WellFormed(s) ==
  IF s = <<>> THEN TRUE
  ELSE IF IsHighSurrogate(Head(s))
    THEN Len(s) >= 2 /\ IsLowSurrogate(s[2]) /\ WellFormed(Tail(Tail(s)))
  ELSE ~IsLowSurrogate(Head(s)) /\ WellFormed(Tail(s))

C30_RoundTripAndTamperDetection ==
  vault.pc = "read" =>
    IF vault.stored = vault.original
      THEN WellFormed(vault.plaintext)
             => vault.out = [error |-> "none", plaintext |-> vault.plaintext]
      ELSE vault.out = [error |-> "integrity", plaintext |-> <<>>]

\* a credential with a character outside the BMP has come back from its blob
C30_Witness ==
  /\ vault.pc = "read"
  /\ vault.stored = vault.original
  /\ vault.plaintext = <<55357, 56832>>
  /\ vault.out.plaintext = <<55357, 56832>>

\* a blob with an overwritten byte has been refused
C30_WitnessTamper ==
  /\ vault.pc = "read"
  /\ vault.stored # vault.original
  /\ Len(fromBase64(vault.stored)) > IV_LENGTH + TAG_LENGTH
  /\ vault.out.error = "integrity"



(***************************************************************************)
(* C31: verifySignature always returns a result value and never throws:    *)
(* every call ends with valid, or with one of the errors invalid or        *)
(* expired timestamp, replay, or invalid signature, a signature of a       *)
(* different length than the expected HMAC included.                       *)
(***************************************************************************)
C31_VerifySignatureReturns ==
  sigResult.server # 0 =>
    sigResult.error \in {None, "MISSING_HEADERS", "INVALID_TIMESTAMP", "EXPIRED",
                         "REPLAY", "INVALID_SIGNATURE"}

(***************************************************************************)
(* C37: a signature verification that fails does not mark the nonce as     *)
(* used: a call that ends with an error adds no (token, nonce) pair to the *)
(* nonce cache, so a later correctly signed request with the same pair is  *)
(* still accepted.                                                         *)
(***************************************************************************)
C37_Step ==
  (sigResult'.server # 0 /\ sigResult'.error \in {"EXPIRED", "INVALID_SIGNATURE"}) =>
    \A s \in DOMAIN nonceCache :
      \A e \in nonceCache'[s] : NonceHas(nonceCache[s], e[1])

C37_FailureKeepsNonceFresh == [][C37_Step]_vars



(***************************************************************************)
(* C32: when rotateToken clears the violation counts, every                *)
(* suspicious:<token_id>:* key of the rotated token is deleted, so the     *)
(* count of every type restarts from 0, and the suspicious keys of every   *)
(* other token are unchanged; a rotation that has got past that step has   *)
(* taken it with the fast store reachable.                                 *)
(***************************************************************************)
C32_Step ==
  \A k \in DOMAIN rot :
    (rot[k].pc = "clear" /\ rot'[k].pc \in {"audit", "notify", "done"}) =>
      \A key \in DOMAIN suspicious :
        IF key[1] = rot[k].tokenId
          THEN suspicious'[key] = EmptyList
          ELSE suspicious'[key] = suspicious[key]

C32_OrderStep ==
  \A k \in DOMAIN rot :
    (rot[k].pc # rot'[k].pc /\ rot'[k].pc \in {"audit", "notify", "done"}) =>
      \/ rot[k].pc = "clear" /\ rot'[k].pc = "audit" /\ redisUp
      \/ rot[k].pc = "audit" /\ rot'[k].pc = "notify"
      \/ rot[k].pc = "notify" /\ rot'[k].pc = "done"

C32_RotationClearsOwnCounts == [][C32_Step /\ C32_OrderStep]_vars

\* a rotation has just cleared the list its caller had counted, and a list
\* of the other token is still there
C32_Witness ==
  \E k \in DOMAIN rot : \E c \in DOMAIN sus :
    /\ rot[k].pc = "audit"
    /\ rot[k].tokenId = sus[c].tokenId
    /\ sus[c].counted # <<>>
    /\ suspicious[<<sus[c].tokenId, sus[c].type>>] = EmptyList
    /\ \E t \in SuspTypes : suspicious[<<OtherToken, t>>].events # <<>>



(***************************************************************************)
(* C33: each payload popped from webhooks:queue is POSTed at most once to  *)
(* each active webhook whose event set contains its event, nothing is      *)
(* re-queued, and every delivery attempt writes exactly one audit record   *)
(* stating its outcome: WEBHOOK_SENT for a successful delivery,            *)
(* WEBHOOK_FAILED for a failed one.                                        *)
(***************************************************************************)
C33_Step ==
  Len(webhooksQueue') < Len(webhooksQueue) =>
    LET payload == webhooksQueue[Len(webhooksQueue)]
        posted == deliveries' (-) deliveries
        logged == auditLog' (-) auditLog
    IN /\ webhooksQueue' = SubSeq(webhooksQueue, 1, Len(webhooksQueue) - 1)
       /\ \A d \in BagToSet(posted) :
            /\ CopiesIn(d, posted) = 1
            /\ d.event = payload.event
            /\ \E c \in getWebhookConfigs(webhookConfigs, payload.userId, payload.event) :
                 c.id = d.webhookId
            /\ Cardinality({e \in BagToSet(posted) : e.webhookId = d.webhookId}) = 1
            /\ \A row \in BagToSet(logged) :
                 row.resourceId = d.webhookId =>
                   /\ CopiesIn(row, logged) = 1
                   /\ row.action = IF d.success THEN "WEBHOOK_SENT" ELSE "WEBHOOK_FAILED"
            /\ Cardinality({row \in BagToSet(logged) : row.resourceId = d.webhookId}) = 1
       /\ BagCardinality(logged) = BagCardinality(posted)

C33_DeliveryLoggedWithOutcome == [][C33_Step]_vars



(***************************************************************************)
(* C34: the provider named in X-Feen-Provider and the API key and provider *)
(* written to the usage record are those of the candidate whose upstream   *)
(* response is returned to the client, also when a later candidate was     *)
(* attempted and ended in a transport error or was skipped.                *)
(***************************************************************************)
C34_ProviderOfReturnedResponse ==
  \A r \in DOMAIN req :
    (req[r].pc = "done" /\ req[r].respKey # None /\ req[r].status = req[r].resp
     /\ req[r].reason = None) =>
      /\ req[r].xFeenProvider = apiKeys[req[r].respKey].provider
      /\ \A u \in BagToSet(usageLogs) :
           u.request = RequestId(r) =>
             /\ u.apiKeyId = req[r].respKey
             /\ u.provider = apiKeys[req[r].respKey].provider

(***************************************************************************)
(* C35: a rejected proxy request consumes no quota.  The step that rejects *)
(* a request on a policy check (invalid, inactive or expired token, usage  *)
(* cap, disallowed IP) is the first step after its arrival and leaves the  *)
(* rate-limit counters, usage_count and the queued usage_count increments  *)
(* unchanged; the step that rejects a request at the rate limiter leaves   *)
(* usage_count and the queued increments unchanged; an increment is queued *)
(* only by a request that is answered with an upstream response.           *)
(***************************************************************************)
PolicyReasons == {"NO_BEARER", "BAD_FORMAT", "NOT_FOUND", "EXPIRED", "USAGE_LIMIT",
                  "IP_DENIED"}

C35_Rejects(r, reasons) ==
  req[r].pc # "done" /\ req'[r].pc = "done" /\ req'[r].reason \in reasons

C35_Step ==
  /\ \A r \in DOMAIN req :
       /\ C35_Rejects(r, PolicyReasons) =>
            /\ req[r].pc = "lookup"
            /\ ratelimit' = ratelimit
            /\ sharedKeys' = sharedKeys
            /\ pendingUsage' = pendingUsage
       /\ C35_Rejects(r, {"RATE_LIMITED"}) =>
            /\ req[r].pc \in {"rate", "expire"}
            /\ sharedKeys' = sharedKeys
            /\ pendingUsage' = pendingUsage
  /\ \A id \in SharedKeyIds :
       /\ ~(pendingUsage[id] \sqsubseteq pendingUsage'[id]) \/ pendingUsage'[id] = pendingUsage[id]
          \/ \E r \in DOMAIN req :
               /\ req[r].pc = "finish" /\ req'[r].pc = "done" /\ req[r].sk = id
               /\ req'[r].reason = None /\ req'[r].status = req[r].resp
       /\ sharedKeys'[id].usageCount # sharedKeys[id].usageCount =>
            /\ sharedKeys'[id].usageCount = sharedKeys[id].usageCount + 1
            /\ BagCardinality(pendingUsage'[id]) = BagCardinality(pendingUsage[id]) - 1

C35_RejectedConsumesNoQuota == [][C35_Step]_vars

\* a second request is refused for its address after the first one was
\* forwarded and counted
C35_Witness ==
  /\ req[1].pc = "done" /\ req[1].reason = "IP_DENIED" /\ req[1].gen = 2
  /\ ratelimit[<<"sk1", WindowIndex(now, RATE_WINDOW_SECONDS)>>].count = 1
  /\ sharedKeys["sk1"].usageCount = 1
  /\ pendingUsage["sk1"] = EmptyBag

(***************************************************************************)
(* SpecCap: the usage cap under concurrency.  Two clients send requests at *)
(* the same time on a token with maxUsage 1 or 2.                          *)
(***************************************************************************)
InitCap ==
  /\ InitCommon
  /\ focus = "cap"
  /\ now = StartTime
  /\ \E m \in {1, 2}, l \in {1, 2} :
       sharedKeys = [id \in SharedKeyIds |->
                       [BaseSharedKey EXCEPT !.maxUsage = m, !.rateLimit = l]]
  /\ apiKeys = BaseApiKeys
  /\ redisUp = TRUE
  /\ req = [r \in 1..NumClients |-> IdleReq]

SpecCap == InitCap /\ [][Requests]_vars

\* the requests on token `id` that were forwarded and answered by an upstream
ForwardedOn(id) ==
  {u.request : u \in {v \in BagToSet(usageLogs) : v.sharedKeyId = id}}

(***************************************************************************)
(* C36: for a token with max_total_use = M, at most M requests are         *)
(* forwarded upstream, under any interleaving of concurrent requests.      *)
(***************************************************************************)
C36_AtMostMaxUsageForwarded ==
  \A id \in SharedKeyIds :
    sharedKeys[id].maxUsage # 0 =>
      Cardinality(ForwardedOn(id)) <= sharedKeys[id].maxUsage

(***************************************************************************)
(* SpecTwoFactor: two-factor authentication.  Users enable 2FA with either *)
(* secret and list of backup codes, disable it, verify codes for sensitive *)
(* actions and call verifyBackupCode, two calls at a time.                 *)
(***************************************************************************)
\* the codes a client may submit at time t: codes of both secrets, backup codes
TwoFactorCodes(t) ==
  {generateTOTP(TwoFactorSecret, t \div TOTP_STEP), generateTOTP(OtherSecret, t \div TOTP_STEP)}
    \cup {b \in BackupCodes : b.len # TOTP_DIGITS} \cup OtherBackupCodes

\* the users who call the 2FA endpoints
TwoFactorUsers == {"u1"}

InitTwoFactor ==
  /\ InitCommon
  /\ focus = "twofactor"
  /\ now = StartTime
  /\ sharedKeys = <<>>
  /\ apiKeys = BaseApiKeys
  /\ redisUp = TRUE
  /\ req = [r \in {1} |-> IdleReq]

NextTwoFactor ==
  \/ \E c \in DOMAIN api : \E u \in TwoFactorUsers : \E code \in TwoFactorCodes(now) :
       \E secret \in {TwoFactorSecret, OtherSecret} :
         \E codes \in {BackupCodes, OtherBackupCodes} :
           EnableTwoFactor(c, u, secret, code, codes)
  \/ \E c \in DOMAIN api : \E u \in TwoFactorUsers : \E code \in TwoFactorCodes(now) :
       DisableTwoFactor(c, u, code)
  \/ \E c \in DOMAIN api : \E u \in TwoFactorUsers : \E code \in TwoFactorCodes(now) :
       \E a \in SENSITIVE_ACTIONS : VerifyTwoFactor(c, u, code, a)
  \/ \E c \in DOMAIN api : \E u \in TwoFactorUsers : \E code \in TwoFactorCodes(now) :
       VerifyBackupRead(c, u, code)
  \/ \E c \in DOMAIN api : VerifyBackupRemove(c)

SpecTwoFactor == InitTwoFactor /\ [][NextTwoFactor]_vars

\* the hash under which verifyBackupCode looks a submitted code up
BackupHash(code) == hash(NormalizeCode(code.value))

(***************************************************************************)
(* C38: a stored backup code is accepted at most once: under any           *)
(* interleaving of concurrent verifyBackupCode calls with the same code    *)
(* for the same user, at most one call returns true.  Stated for the codes *)
(* of a user whose backup codes were stored once.                          *)
(***************************************************************************)
C38_BackupCodeAcceptedOnce ==
  \A c1, c2 \in DOMAIN api :
    (/\ c1 # c2
     /\ TwoFactorEnables <= 1
     /\ api[c1].op = "verify_backup" /\ api[c2].op = "verify_backup"
     /\ api[c1].user = api[c2].user
     /\ BackupHash(api[c1].code) = BackupHash(api[c2].code)) =>
      ~(api[c1].returned = "true" /\ api[c2].returned = "true")

(***************************************************************************)
(* C39: when 2FA is enabled for a user, requireTwoFactorVerification       *)
(* called with an unused stored backup code of 8 hexadecimal characters    *)
(* returns valid and removes that code; it does not raise an error.        *)
(***************************************************************************)
C39_Step ==
  \A c \in DOMAIN api : \A u \in TwoFactorUsers : \A a \in SENSITIVE_ACTIONS :
    \A b \in {x \in BackupCodes \cup OtherBackupCodes : x.len = TOTP_DIGITS + 2} :
      (/\ twoFactor[u].secret # None
       /\ hash(b.value) \in twoFactor[u].backup
       /\ VerifyTwoFactor(c, u, b, a)) =>
        /\ api'[c].status = 200
        /\ twoFactor'[u].backup = twoFactor[u].backup \ {hash(b.value)}

C39_BackupCodeVerifies == [][C39_Step]_vars

(***************************************************************************)
(* C40: once 2FA is enabled for a user, the stored secret and backup codes *)
(* change only through disableTwoFactor called with a code valid for the   *)
(* current secret (or by the removal of a backup code that was used); a    *)
(* call to the enable endpoint for an enabled user does not replace them.  *)
(***************************************************************************)
C40_Step ==
  \A u \in Users :
    (twoFactor[u].secret # None /\ twoFactor'[u] # twoFactor[u]) =>
      \/ /\ twoFactor'[u] = NoTwoFactor
         /\ \E c \in DOMAIN api : \E code \in TwoFactorCodes(now) :
              /\ DisableTwoFactor(c, u, code)
              /\ verifyTOTP(twoFactor[u].secret, code, now) = "ok"
      \/ /\ twoFactor'[u].secret = twoFactor[u].secret
         /\ twoFactor'[u].backup \subseteq twoFactor[u].backup
         /\ Cardinality(twoFactor[u].backup \ twoFactor'[u].backup) = 1

C40_EnabledStateChangesOnlyByDisable == [][C40_Step]_vars


====
